---- MODULE Spec2Model ----
(***************************************************************************)
(* HyperXO (Ultimate Tic-Tac-Toe): the rules engine of hyperxo/game.py,    *)
(* the search engine of hyperxo/ai.py and the session lock of hyperxo/ui.py.*)
(*                                                                         *)
(* Python objects are modelled by value except for the `cells` lists of    *)
(* the sub-boards, which live in a heap (`lists`) and are referred to by   *)
(* identity, so that clone()'s copy of every list is something the model   *)
(* can get wrong.  Indices are the source's 0-based indices.               *)
(*                                                                         *)
(* The 64-bit Zobrist keys are modelled symbolically: a hash is the set of *)
(* the key identifiers whose XOR it is, and XOR is symmetric difference.   *)
(* Two hashes equal as sets are equal as 64-bit values for any key table.  *)
(***************************************************************************)
EXTENDS Integers, Sequences, FiniteSets, TLC

VARIABLES
    games,   \* name -> HyperXOGame object ("orig", and "clone" once cloned)
    lists,   \* heap: list id -> the nine cells of one SmallBoard.cells list
    result,  \* outcome of the last call: "new", "ok", "cloned" or the error raised
    last,    \* the last successful play_move: [game, big, cell]
    script,  \* moves of the opening still to be replayed on "orig"
    free,    \* successful play_move calls made after the opening
    engine,  \* the MinimaxAI object: [player, depth, tt]
    chosen,  \* what the last choose() call did: error raised, move, scores
    session, \* the GameSession's own fields: [move_log, ai_pending]
    lock,    \* session.lock: the thread that holds it, or NoThread
    threads, \* thread -> where it stands in its handler, and what it has read
    SESSIONS, \* the registry: the sessions created, in the order of creation
    ROOMS,   \* the signaling rooms: room code -> Room object [host, guest]
    sockets  \* websocket -> where its handler stands, and what its client got

gameVars == <<games, lists, result, last, script, free>>
aiVars == <<engine, chosen>>
roomVars == <<ROOMS, sockets>>
uiVars == <<session, lock, threads, SESSIONS, roomVars>>
vars == <<gameVars, aiVars, uiVars>>

---------------------------------------------------------------------------
\* Bounds of the exploration

\* successful moves explored after the opening (on "orig" and "clone" together)
MaxMoves == 1

\* how far beyond each end of 0..8 the arguments tried for play_move reach
Beyond == 1

\* successful place calls explored after the placements of an opening
MaxPlaced == 2

\* the largest depth an engine is configured with
MaxDepth == 3

\* arguments tried for play_move(big, cell)
Idx == (0 - Beyond) .. (8 + Beyond)

---------------------------------------------------------------------------
\* Values

X == "X"
O == "O"
Empty == " "
None == "None"     \* Python's None for an Optional[Player]
NoBoard == <<>>    \* Python's None for next_board_index; <<i>> is the index i

Cell == 0 .. 8

WINNING_LINES ==
    << <<0, 1, 2>>, <<3, 4, 5>>, <<6, 7, 8>>,
       <<0, 3, 6>>, <<1, 4, 7>>, <<2, 5, 8>>,
       <<0, 4, 8>>, <<2, 4, 6>> >>

\* errors raised
NoError == "none"
ErrFinished == "Game already finished"
ErrIllegal == "Illegal move for the current position"
ErrResolved == "Board already resolved"
ErrOccupied == "Cell already occupied"
ErrIndex == "IndexError"

\* Python list indexing on a list of nine elements: -9..-1 count from the end,
\* anything outside -9..8 raises IndexError.
PyInRange(i) == -9 <= i /\ i <= 8
PyIndex(i) == IF i < 0 THEN i + 9 ELSE i

---------------------------------------------------------------------------
\* SmallBoard

\* cells of the list a board refers to
CellsOf(b, L) == L[b.cells]

is_full(b, L) == \A j \in Cell : CellsOf(b, L)[j] # Empty

\* the first line of WINNING_LINES, from the k-th on, held by one player
RECURSIVE first_line_winner(_, _)
first_line_winner(c, k) ==
    IF k > Len(WINNING_LINES) THEN None
    ELSE LET l == WINNING_LINES[k]
             v == c[l[1]]
         IN  IF v # Empty /\ v = c[l[2]] /\ v = c[l[3]] THEN v
             ELSE first_line_winner(c, k + 1)

\* _update_state with a slip: the two diagonals are not scanned
_update_state_no_diagonals(b, L) ==
    LET c == CellsOf(b, L)
        rowcol == \E k \in 1 .. 6 :
                    LET l == WINNING_LINES[k]
                    IN  c[l[1]] # Empty /\ c[l[1]] = c[l[2]] /\ c[l[1]] = c[l[3]]
        w == first_line_winner(c, 1)
    IN  IF rowcol THEN [b EXCEPT !.winner = w, !.drawn = FALSE]
        ELSE IF is_full(b, L) THEN [b EXCEPT !.winner = None, !.drawn = TRUE]
        ELSE b

_update_state(b, L) ==
    LET w == first_line_winner(CellsOf(b, L), 1)
    IN  IF w # None THEN [b EXCEPT !.winner = w, !.drawn = FALSE]
        ELSE IF is_full(b, L) THEN [b EXCEPT !.winner = None, !.drawn = TRUE]
        ELSE b

\* place with a slip: an occupied cell is overwritten
place_overwrites(b, L, player, idx) ==
    IF b.winner # None \/ b.drawn
    THEN [board |-> b, lists |-> L, raised |-> ErrResolved]
    ELSE IF ~PyInRange(idx)
    THEN [board |-> b, lists |-> L, raised |-> ErrIndex]
    ELSE LET L1 == [L EXCEPT ![b.cells][PyIndex(idx)] = player]
         IN  [board |-> _update_state(b, L1), lists |-> L1, raised |-> NoError]

\* place: the board and the heap after the call, and the error raised
place(b, L, player, idx) ==
    IF b.winner # None \/ b.drawn
    THEN [board |-> b, lists |-> L, raised |-> ErrResolved]
    ELSE IF ~PyInRange(idx)
    THEN [board |-> b, lists |-> L, raised |-> ErrIndex]
    ELSE IF CellsOf(b, L)[PyIndex(idx)] # Empty
    THEN [board |-> b, lists |-> L, raised |-> ErrOccupied]
    ELSE LET L1 == [L EXCEPT ![b.cells][PyIndex(idx)] = player]
         IN  [board |-> _update_state(b, L1), lists |-> L1, raised |-> NoError]

---------------------------------------------------------------------------
\* Zobrist keys (identifiers of the 64-bit keys)

StmKey == 162
NbiKeyBase == 163

piece_key(big, cell, player) ==
    (PyIndex(big) * 9 + PyIndex(cell)) * 2 + (IF player = X THEN 0 ELSE 1)

stm_key == StmKey

nbi_key(nbi) == NbiKeyBase + (IF nbi # NoBoard THEN nbi[1] ELSE 9)

\* z ^ key
xor(z, key) == (z \ {key}) \cup ({key} \ z)

---------------------------------------------------------------------------
\* HyperXOGame

\* __post_init__ of a game built with the given fields
__post_init__(boards, current_player, next_board_index) ==
    LET z0 == {}
        z1 == IF current_player = O THEN xor(z0, stm_key) ELSE z0
    IN  [boards |-> boards,
         current_player |-> current_player,
         next_board_index |-> next_board_index,
         winner |-> None,
         drawn |-> FALSE,
         zkey |-> xor(z1, nbi_key(next_board_index))]

big_board_state(g) ==
    [i \in Cell |->
        IF g.boards[i].winner = X THEN "X"
        ELSE IF g.boards[i].winner = O THEN "O"
        ELSE IF g.boards[i].drawn THEN "G"
        ELSE "."]

live(g, L, i) ==
    LET b == g.boards[i]
    IN  b.winner = None /\ ~b.drawn /\ ~is_full(b, L)

\* the empty cells of board i, ascending
board_moves(g, L, i) ==
    LET c == CellsOf(g.boards[i], L)
    IN  SelectSeq([k \in 1 .. 9 |-> <<i, k - 1>>], LAMBDA m : c[m[2]] = Empty)

RECURSIVE live_board_moves(_, _, _)
live_board_moves(g, L, i) ==
    IF i > 8 THEN <<>>
    ELSE (IF live(g, L, i) THEN board_moves(g, L, i) ELSE <<>>)
         \o live_board_moves(g, L, i + 1)

\* available_moves with a slip: the forced board is ignored
available_moves_unforced(g, L) == live_board_moves(g, L, 0)

available_moves(g, L) ==
    IF g.next_board_index # NoBoard /\ live(g, L, g.next_board_index[1])
    THEN board_moves(g, L, g.next_board_index[1])
    ELSE live_board_moves(g, L, 0)

\* first_macro_winner with a slip: a drawn board is transparent, so a line of
\* boards that are each won by one player or drawn counts for that player
RECURSIVE first_macro_winner_transparent(_, _)
first_macro_winner_transparent(bb, k) ==
    IF k > Len(WINNING_LINES) THEN None
    ELSE LET l == WINNING_LINES[k]
             marks == {bb[l[1]], bb[l[2]], bb[l[3]]}
         IN  IF marks \in {{"X"}, {"X", "G"}} THEN "X"
             ELSE IF marks \in {{"O"}, {"O", "G"}} THEN "O"
             ELSE first_macro_winner_transparent(bb, k + 1)

\* the first macro line, from the k-th on, of three boards won by one player
RECURSIVE first_macro_winner(_, _)
first_macro_winner(bb, k) ==
    IF k > Len(WINNING_LINES) THEN None
    ELSE LET l == WINNING_LINES[k]
         IN  IF bb[l[1]] \in {"X", "O"} /\ bb[l[1]] = bb[l[2]] /\ bb[l[1]] = bb[l[3]]
             THEN bb[l[1]]
             ELSE first_macro_winner(bb, k + 1)

\* _update_global_state with a slip: the game is drawn as soon as no macro line
\* can be won any more, whether or not a move is left
_update_global_state_blocked_draw(g, L) ==
    LET bb == big_board_state(g)
        w == first_macro_winner(bb, 1)
        blocked(l) == LET marks == {bb[l[1]], bb[l[2]], bb[l[3]]}
                      IN  "G" \in marks \/ {"X", "O"} \subseteq marks
    IN  IF w # None THEN [g EXCEPT !.winner = w, !.drawn = FALSE]
        ELSE IF \A k \in 1 .. Len(WINNING_LINES) : blocked(WINNING_LINES[k])
        THEN [g EXCEPT !.winner = None, !.drawn = TRUE]
        ELSE g

\* _update_global_state with a slip: a game without a macro winner is never
\* declared drawn
_update_global_state_no_draw(g, L) ==
    LET w == first_macro_winner(big_board_state(g), 1)
    IN  IF w # None THEN [g EXCEPT !.winner = w, !.drawn = FALSE] ELSE g

_update_global_state(g, L) ==
    LET w == first_macro_winner(big_board_state(g), 1)
    IN  IF w # None THEN [g EXCEPT !.winner = w, !.drawn = FALSE]
        ELSE IF available_moves(g, L) = <<>>
        THEN [g EXCEPT !.winner = None, !.drawn = TRUE]
        ELSE g

\* the legality gate with a slip: the move is looked up on the board the way
\* Python indexes a list, so that -1 names the last board or cell
legal_gate_by_lookup(g, L, big, cell) ==
    /\ PyInRange(big) /\ PyInRange(cell)
    /\ live(g, L, PyIndex(big))
    /\ CellsOf(g.boards[PyIndex(big)], L)[PyIndex(cell)] = Empty
    /\ \/ g.next_board_index = NoBoard
       \/ ~live(g, L, g.next_board_index[1])
       \/ g.next_board_index[1] = PyIndex(big)

\* the legality gate with a slip: only the board of the move is checked
legal_gate_board_only(g, L, big, cell) ==
    LET moves == available_moves(g, L)
    IN  \E k \in 1 .. Len(moves) : moves[k][1] = big

\* the legality gate of play_move
legal_gate(g, L, big, cell) ==
    LET moves == available_moves(g, L)
    IN  \E k \in 1 .. Len(moves) : moves[k] = <<big, cell>>

\* next_forced that looks for an empty cell only: a won board is still forced
next_forced_unless_full(g, L, cell) ==
    IF is_full(g.boards[PyIndex(cell)], L) THEN NoBoard ELSE <<cell>>

\* next_forced with a slip: the opponent is always sent to board `cell`
next_forced_always(g, L, cell) == <<cell>>

\* next_board_index after a placement on `cell`, judged on the boards after it
next_forced(g, L, cell) ==
    LET tb == g.boards[PyIndex(cell)]
    IN  IF tb.winner # None \/ tb.drawn \/ is_full(tb, L) THEN NoBoard ELSE <<cell>>

\* hash_after_move with a slip: the old forced-board key is left in
hash_after_move_keeps_old_nbi(z, old_nbi, big, cell, player, new_nbi) ==
    xor(xor(xor(z, piece_key(big, cell, player)), nbi_key(new_nbi)), stm_key)

\* the hash after a move: old forced-board key out, piece in, new forced-board
\* key in, side to move toggled
hash_after_move(z, old_nbi, big, cell, player, new_nbi) ==
    xor(xor(xor(xor(z, nbi_key(old_nbi)), piece_key(big, cell, player)),
            nbi_key(new_nbi)), stm_key)

\* the switch with a slip: the player who moved stays to move
switch_player_stays(player) == player

\* the switch of the player at the end of play_move
switch_player(player) == IF player = X THEN O ELSE X

\* play_move: the game and the heap after the call, and the error raised.  An
\* exception out of boards[big] or place() leaves what was assigned before it.
play_move(g, L, big, cell) ==
    IF g.winner # None \/ g.drawn
    THEN [game |-> g, lists |-> L, raised |-> ErrFinished]
    ELSE IF ~legal_gate(g, L, big, cell)
    THEN [game |-> g, lists |-> L, raised |-> ErrIllegal]
    ELSE
    LET g1 == [g EXCEPT !.zkey = xor(@, nbi_key(g.next_board_index))]
    IN  IF ~PyInRange(big)
        THEN [game |-> g1, lists |-> L, raised |-> ErrIndex]
        ELSE
        LET p == place(g.boards[PyIndex(big)], L, g.current_player, cell)
        IN  IF p.raised # NoError
            THEN [game |-> g1, lists |-> p.lists, raised |-> p.raised]
            ELSE
            LET g2 == [g EXCEPT !.boards[PyIndex(big)] = p.board]
                g3 == _update_global_state(g2, p.lists)
                nbi == next_forced(g3, p.lists, cell)
            IN  [game |-> [g3 EXCEPT
                             !.next_board_index = nbi,
                             !.current_player = switch_player(g.current_player),
                             !.zkey = hash_after_move(g.zkey, g.next_board_index,
                                                      big, cell, g.current_player, nbi)],
                 lists |-> p.lists,
                 raised |-> NoError]

\* list ids of the copies clone() makes of the nine cells lists
CloneBase == 9

\* clone with a slip: the new SmallBoards share the cells lists of the original
clone_shared_cells(g, L) ==
    LET boards == [i \in Cell |->
                     [cells |-> g.boards[i].cells,
                      winner |-> g.boards[i].winner,
                      drawn |-> g.boards[i].drawn]]
        c == __post_init__(boards, g.current_player, g.next_board_index)
    IN  [game |-> [c EXCEPT !.winner = g.winner, !.drawn = g.drawn, !.zkey = g.zkey],
         lists |-> L]

\* the same slip for a clone asked to use the ids base .. base + 8
clone_at_shared(g, L, base) == clone_shared_cells(g, L)

\* clone, with the nine new lists given the ids base .. base + 8: a new game
\* whose boards are new SmallBoards over copies of the lists
clone_at(g, L, base) ==
    LET L1 == [k \in {base + i : i \in Cell} |-> CellsOf(g.boards[k - base], L)]
              @@ L
        boards == [i \in Cell |->
                     [cells |-> base + i,
                      winner |-> g.boards[i].winner,
                      drawn |-> g.boards[i].drawn]]
        c == __post_init__(boards, g.current_player, g.next_board_index)
    IN  [game |-> [c EXCEPT !.winner = g.winner, !.drawn = g.drawn, !.zkey = g.zkey],
         lists |-> L1]

\* clone of a game whose lists are 0 .. 8
clone(g, L) == clone_at(g, L, CloneBase)

zobrist_hash(g) == g.zkey

\* HyperXOGame(): nine empty boards over the lists 0..8, X to move, no forced board
NewLists == [k \in Cell |-> [j \in Cell |-> Empty]]
NewGame ==
    __post_init__([i \in Cell |-> [cells |-> i, winner |-> None, drawn |-> FALSE]],
              X, NoBoard)

---------------------------------------------------------------------------
\* MinimaxAI (hyperxo/ai.py)
\*
\* Scores are the source's floats times ten, so that every weight of the
\* evaluation and of the move ordering (0.1, 0.3, 1.5, ...) is an integer.
\* The sums are exact here, while the source adds floats: two scores that are
\* equal as numbers can differ in their last bits there, so between moves of
\* equal score the source's `>` and `<` may keep another move than the model.
\* Scores that differ as numbers differ by 0.1 at least and compare alike.

\* 10_000.0, the score of a won game
WinScore == 100000

\* 50.0, half the width of the aspiration window
Window == 500

\* math.inf
Inf == 1000000000

\* TT entry flags
EXACT == 0
LOWER == 1
UPPER == 2

max(a, b) == IF a >= b THEN a ELSE b
min(a, b) == IF a <= b THEN a ELSE b

\* s + w on floats: an infinity stays what it is
plus(s, w) == IF s = Inf \/ s = -Inf THEN s ELSE s + w

\* the sum of a sequence of numbers
RECURSIVE sum(_)
sum(q) == IF q = <<>> THEN 0 ELSE Head(q) + sum(Tail(q))

\* MinimaxAI(player, depth): the transposition table is a function from the
\* hashes stored to their entries
\* `aligned` is kept for the properties only: so far every _minimax call was
\* maximizing exactly when the engine's player was to move at its node, and
\* every entry a probe used had been stored by a call of the same kind
MinimaxAI(player, depth) ==
    [player |-> player, depth |-> depth, tt |-> <<>>, aligned |-> TRUE]

TTEntry(depth, score, flag, best_move) ==
    [depth |-> depth, score |-> score, flag |-> flag, best_move |-> best_move]

\* self._tt[key] = entry
tt_store(tt, key, entry) == (key :> entry) @@ tt

opponent(me) == IF me = X THEN O ELSE X

\* the marks of line number k of the grid c
trio(c, k) == [t \in 1 .. 3 |-> c[WINNING_LINES[k][t]]]

\* trio.count(v)
count(tr, v) == Cardinality({t \in 1 .. 3 : tr[t] = v})

_hash(g) == zobrist_hash(g)

_is_winning_move_local(board_cells, player, cell) ==
    /\ board_cells[cell] = Empty
    /\ \E k \in 1 .. Len(WINNING_LINES) :
          /\ cell \in {WINNING_LINES[k][t] : t \in 1 .. 3}
          /\ count(trio(board_cells, k), player) = 2
          /\ count(trio(board_cells, k), Empty) = 1

_two_in_a_row_threats(board_cells, player) ==
    Cardinality({k \in 1 .. Len(WINNING_LINES) :
                    /\ count(trio(board_cells, k), player) = 2
                    /\ count(trio(board_cells, k), Empty) = 1})

\* the ordering score of a move: local win or block, then where the move sends
\* the opponent, then the geometry of the cell
_move_heuristic(self, g, L, move) ==
    LET i == move[1]
        j == move[2]
        me == self.player
        opp == opponent(me)
        cells == CellsOf(g.boards[i], L)
        tgt == g.boards[j]
        send == IF tgt.winner = me THEN 60
                ELSE IF tgt.winner = opp THEN -60
                ELSE IF tgt.drawn \/ is_full(tgt, L) THEN -30
                ELSE 15 * _two_in_a_row_threats(CellsOf(tgt, L), me)
                     - 10 * _two_in_a_row_threats(CellsOf(tgt, L), opp)
        geometry == IF j = 4 THEN 4 ELSE IF j \in {0, 2, 6, 8} THEN 2 ELSE 1
    IN  IF _is_winning_move_local(cells, me, j) THEN 10000
        ELSE IF _is_winning_move_local(cells, opp, j) THEN 9000
        ELSE send + geometry

\* the weight with a slip: two sub-boards in a line weigh as much as the game
macro_weight_steep(n) == IF n = 1 THEN 40 ELSE WinScore

\* 4**n times ten
macro_weight(n) == IF n = 1 THEN 40 ELSE IF n = 2 THEN 160 ELSE 640

\* the macro-line term of line k of the big board bb
macro_line(bb, k, me, opp) ==
    LET marks == trio(bb, k)
        m == count(marks, me)
        o == count(marks, opp)
    IN  IF count(marks, "G") > 0 THEN 0
        ELSE IF m > 0 /\ o > 0 THEN 0
        ELSE IF m > 0 THEN macro_weight(m)
        ELSE IF o > 0 THEN 0 - macro_weight(o)
        ELSE 0

\* the nudges with a slip: only the engine's own boards count
macro_geometry_own(bb, me, opp) ==
    (IF bb[4] = me THEN 6 ELSE 0)
    + sum([n \in 1 .. 4 |-> IF bb[<<0, 2, 6, 8>>[n]] = me THEN 3 ELSE 0])

\* the nudges for the centre and the corners of the big board
macro_geometry(bb, me, opp) ==
    (IF bb[4] = me THEN 6 ELSE IF bb[4] = opp THEN -6 ELSE 0)
    + sum([n \in 1 .. 4 |->
             LET k == <<0, 2, 6, 8>>[n]
             IN  IF bb[k] = me THEN 3 ELSE IF bb[k] = opp THEN -3 ELSE 0])

\* the potential of line k of a live sub-board with cells c
micro_line(c, k, me, opp) ==
    LET tr == trio(c, k)
        cnt == count(tr, me)
        cnto == count(tr, opp)
    IN  (IF cnto = 0 THEN (IF cnt = 1 THEN 10 ELSE IF cnt = 2 THEN 50 ELSE 0) ELSE 0)
        - (IF cnt = 0 THEN (IF cnto = 1 THEN 10 ELSE IF cnto = 2 THEN 50 ELSE 0) ELSE 0)

\* the term of one sub-board
micro_board(b, L, me, opp) ==
    IF b.winner = me THEN 20
    ELSE IF b.winner = opp THEN -20
    ELSE IF b.drawn THEN 0
    ELSE LET c == CellsOf(b, L)
         IN  sum([k \in 1 .. Len(WINNING_LINES) |-> micro_line(c, k, me, opp)])
             + (IF c[4] = me THEN 3 ELSE IF c[4] = opp THEN -3 ELSE 0)

\* the static evaluation of a position from the engine's point of view
_evaluate(self, g, L) ==
    LET me == self.player
        opp == opponent(me)
        bb == big_board_state(g)
    IN  IF g.winner = me THEN WinScore
        ELSE IF g.winner = opp THEN 0 - WinScore
        ELSE IF g.drawn THEN 0
        ELSE sum([k \in 1 .. Len(WINNING_LINES) |-> macro_line(bb, k, me, opp)])
             + macro_geometry(bb, me, opp)
             + sum([i \in 1 .. 9 |-> micro_board(g.boards[i - 1], L, me, opp)])

\* Python's None for a move
NoMove == <<>>

ErrTurn == "It is not this AI player's turn"
ErrNoMoves == "No valid moves available"

\* the element of a one-element set; { F(v) : v \in {e} } names the value of e
\* once for all its uses in F
Only(S) == CHOOSE v \in S : TRUE

\* list(moves) sorted by key, largest first, keys[k] being the key of moves[k];
\* Python's sort is stable, so moves of equal key keep their order: a move
\* comes after the moves of larger key and after the moves of equal key that
\* stood before it
sorted_desc(moves, keys) ==
    LET n == Len(moves)
        place_of(k) == 1 + Cardinality({j \in 1 .. n :
                              \/ keys[j] > keys[k]
                              \/ keys[j] = keys[k] /\ j < k})
        at == [k \in 1 .. n |-> <<place_of(k), moves[k]>>] \o <<>>
    IN  [p \in 1 .. n |-> (CHOOSE e \in {at[k] : k \in 1 .. n} : e[1] = p)[2]]
        \o <<>>

\* the ordering with a slip: the moves of every live board are searched, also
\* when a board is forced
ordered_moves_unforced(self, g, L) ==
    LET moves == available_moves_unforced(g, L)
    IN  Only({sorted_desc(q, [k \in 1 .. Len(q) |->
                                _move_heuristic(self, g, L, q[k])] \o <<>>) :
                q \in {moves}})

\* the moves of a node in the order they are searched: the TT's best move is
\* put first, then the list is sorted by the ordering score
ordered_moves(self, g, L) ==
    LET key == _hash(g)
        moves == available_moves(g, L)
        pv == IF key \in DOMAIN self.tt THEN self.tt[key].best_move ELSE NoMove
        seeded == IF \E k \in 1 .. Len(moves) : moves[k] = pv
                  THEN <<pv>> \o SelectSeq(moves, LAMBDA m : m # pv)
                  ELSE moves
    IN  Only({sorted_desc(q, [k \in 1 .. Len(q) |->
                                _move_heuristic(self, g, L, q[k])] \o <<>>) :
                q \in {seeded}})

\* the list id of the first of the nine lists a clone of g is given: games
\* nest like the calls of the search, so the lists after those of g are free
fresh(g) == g.boards[0].cells + 9

\* child = game.clone(); child.play_move(*move).  The moves come from
\* available_moves(), so play_move does not raise.
child_of(g, L, move) ==
    Only({play_move(c.game, c.lists, move[1], move[2]) :
            c \in {clone_at(g, L, fresh(g))}})

\* the test of the probe with a slip: no entry is ever deep enough
deep_enough_never(entry, depth) == FALSE

\* the test of the probe: the entry comes from a search at least as deep
deep_enough(entry, depth) == entry.depth >= depth

\* the engine with `aligned` brought up to date for a call that is
\* maximizing or not at node g, `stored` being the kind of the call that
\* stored the entry the call returns (its own kind when it returns none)
noted(self, g, maximizing, stored) ==
    [self EXCEPT !.aligned = /\ @
                             /\ maximizing <=> (g.current_player = self.player)
                             /\ stored <=> maximizing]

RECURSIVE _minimax(_, _, _, _, _, _, _)
RECURSIVE loop_step(_, _, _, _, _)
RECURSIVE move_loop(_, _, _, _, _, _, _)

\* one pass of the loop over the moves of a node.  acc holds the loop's
\* variables (value, best_move, alpha, beta), the engine, the heap, and
\* whether the loop has hit its break.
loop_step(acc, g, depth, maximizing, move) ==
    Only({
        LET better == IF maximizing THEN r.score > acc.value
                      ELSE r.score < acc.value
            value1 == IF better THEN r.score ELSE acc.value
            alpha1 == IF maximizing THEN max(acc.alpha, value1) ELSE acc.alpha
            beta1 == IF maximizing THEN acc.beta ELSE min(acc.beta, value1)
        IN  [value |-> value1,
             best_move |-> IF better THEN move ELSE acc.best_move,
             alpha |-> alpha1, beta |-> beta1,
             self |-> r.self, lists |-> r.lists,
             done |-> alpha1 >= beta1] :
        r \in {_minimax(acc.self, child.game, child.lists, depth - 1,
                        acc.alpha, acc.beta, ~maximizing) :
                  child \in {child_of(g, acc.lists, move)}}})

\* the passes of the loop for the moves lo .. hi in their order, as the passes
\* for the first half followed by those for the second; after the break the
\* remaining moves are skipped
move_loop(acc, g, depth, maximizing, moves, lo, hi) ==
    IF lo > hi \/ acc.done THEN acc
    ELSE IF lo = hi THEN loop_step(acc, g, depth, maximizing, moves[lo])
    ELSE move_loop(move_loop(acc, g, depth, maximizing, moves, lo, (lo + hi) \div 2),
                   g, depth, maximizing, moves, (lo + hi) \div 2 + 1, hi)

\* _minimax: the score and move returned, the engine and the heap after the call
_minimax(self, g, L, depth, alpha, beta, maximizing) ==
    IF depth = 0 \/ g.winner # None \/ g.drawn
    THEN [score |-> _evaluate(self, g, L), move |-> NoMove,
          self |-> noted(self, g, maximizing, maximizing),
          lists |-> L, pv |-> NoMove, first |-> NoMove]
    ELSE
    LET key == _hash(g)
        hit == key \in DOMAIN self.tt
        usable == hit /\ deep_enough(self.tt[key], depth)
        e == self.tt[key]
        alpha0 == IF usable /\ e.flag = LOWER THEN max(alpha, e.score) ELSE alpha
        beta0 == IF usable /\ e.flag = UPPER THEN min(beta, e.score) ELSE beta
    IN  IF usable /\ (e.flag = EXACT \/ alpha0 >= beta0)
        THEN [score |-> e.score, move |-> e.best_move,
              self |-> noted(self, g, maximizing, e.maximizing), lists |-> L,
              pv |-> NoMove, first |-> NoMove]
        ELSE
        Only({
            LET flag == IF s.best_move # NoMove THEN EXACT
                        ELSE IF maximizing THEN LOWER ELSE UPPER
                \* the entry, and with it, for the properties only, how it
                \* came about: whether the loop ended by its break, the
                \* kind of node, and whether this store or an earlier one
                \* for the key replaced an entry of greater depth
                entry == TTEntry(depth, s.value, flag, s.best_move)
                            @@ [cutoff |-> s.done, maximizing |-> maximizing,
                                lowered |-> hit /\ (e.depth > depth \/ e.lowered)]
            IN  [score |-> s.value, move |-> s.best_move,
                 self |-> [s.self EXCEPT !.tt = tt_store(@, key, entry)],
                 lists |-> s.lists,
                 \* for the properties only: the best move of the entry the
                 \* probe found, and the first move of the loop
                 pv |-> IF hit THEN e.best_move ELSE NoMove,
                 first |-> s.first] :
            s \in {[first |-> IF moves = <<>> THEN NoMove ELSE moves[1]] @@
                   move_loop([value |-> IF maximizing THEN 0 - Inf ELSE Inf,
                              best_move |-> NoMove,
                              alpha |-> alpha0, beta |-> beta0,
                              self |-> noted(self, g, maximizing, maximizing),
                              lists |-> L, done |-> FALSE],
                             g, depth, maximizing, moves, 1, Len(moves)) :
                     moves \in {ordered_moves(self, g, L)}}})

\* `chosen` before any choose call
NotCalled ==
    [fresh |-> FALSE, raised |-> NoError, move |-> NoMove, scores |-> <<>>,
     runs |-> <<>>, stale |-> FALSE]

\* the iterations of choose from depth d on: the window, the best move so far
\* and what the earlier iterations were called with and returned
RECURSIVE deepen(_, _, _, _, _, _, _, _)

deepen(self, g, L, d, alpha, beta, best_move, runs) ==
    IF d > max(1, self.depth)
    THEN [best_move |-> best_move, runs |-> runs,
          scores |-> [k \in 1 .. Len(runs) |-> runs[k].score] \o <<>>,
          self |-> self, lists |-> L]
    ELSE Only({deepen(r.self, g, r.lists, d + 1,
                      plus(r.score, 0 - Window), plus(r.score, Window),
                      IF r.move # NoMove THEN r.move ELSE best_move,
                      Append(runs, [depth |-> d, score |-> r.score,
                                    move |-> r.move, pv |-> r.pv,
                                    first |-> r.first])) :
                 r \in {_minimax(self, g, L, d, alpha, beta, TRUE)}})

\* choose after the turn check: the iterations, then the fallback to the
\* first legal move.  The lists of the clones made by the search are garbage
\* by the end and are dropped from the heap.
choose_move(self, g, L) ==
    Only({
        LET kept == [k \in DOMAIN L |-> s.lists[k]]
            moves == available_moves(g, kept)
        IN  IF s.best_move # NoMove
            THEN [raised |-> NoError, move |-> s.best_move, scores |-> s.scores,
                  runs |-> s.runs,
                  self |-> s.self, lists |-> kept]
            ELSE IF moves = <<>>
            THEN [raised |-> ErrNoMoves, move |-> NoMove, scores |-> s.scores,
                  runs |-> s.runs,
                  self |-> s.self, lists |-> kept]
            ELSE [raised |-> NoError, move |-> moves[1], scores |-> s.scores,
                  runs |-> s.runs,
                  self |-> s.self, lists |-> kept] :
        s \in {deepen(self, g, L, 1, 0 - Inf, Inf, NoMove, <<>>)}})

\* choose with a slip: the turn is not checked
choose_any_turn(self, g, L) == choose_move(self, g, L)

\* choose: the error raised or the move returned, the engine and the heap after
\* the call, and the score of every iteration
choose(self, g, L) ==
    IF g.current_player # self.player
    THEN [raised |-> ErrTurn, move |-> NoMove, scores |-> <<>>, runs |-> <<>>,
          self |-> self,
          lists |-> L]
    ELSE choose_move(self, g, L)

---------------------------------------------------------------------------
\* Openings: games played out with the rules above, replayed move by move

XWinsOpening ==
    << <<8,5>>, <<5,8>>, <<8,3>>, <<3,5>>, <<5,3>>, <<3,2>>, <<2,8>>, <<8,0>>,
       <<0,6>>, <<6,0>>, <<0,0>>, <<0,5>>, <<5,2>>, <<2,0>>, <<0,1>>, <<1,0>>,
       <<0,3>>, <<3,8>>, <<8,4>>, <<4,4>>, <<4,2>>, <<2,4>>, <<4,5>>, <<5,5>>,
       <<5,1>>, <<1,4>> >>

OWinsOpening ==
    << <<1,5>>, <<5,2>>, <<2,4>>, <<4,8>>, <<8,3>>, <<3,7>>, <<7,4>>, <<4,5>>,
       <<5,1>>, <<1,2>>, <<2,5>>, <<5,3>>, <<3,5>>, <<5,0>>, <<0,3>>, <<3,8>>,
       <<8,4>>, <<4,6>>, <<6,3>>, <<3,3>>, <<3,4>>, <<4,2>>, <<2,6>>, <<6,7>>,
       <<7,3>>, <<3,6>>, <<6,5>> >>

DrawOpening ==
    << <<6,7>>, <<7,0>>, <<0,7>>, <<7,8>>, <<8,6>>, <<6,5>>, <<5,1>>, <<1,2>>,
       <<2,5>>, <<5,8>>, <<8,7>>, <<7,4>>, <<4,7>>, <<3,8>>, <<8,8>>, <<2,3>>,
       <<3,6>>, <<6,8>>, <<0,2>>, <<2,0>>, <<0,6>>, <<6,2>>, <<2,1>>, <<1,8>>,
       <<3,2>>, <<2,4>>, <<4,6>>, <<4,2>>, <<2,2>>, <<2,8>>, <<0,1>>, <<1,6>>,
       <<4,0>>, <<0,0>>, <<0,8>>, <<1,3>>, <<3,1>>, <<1,5>>, <<5,0>>, <<4,8>>,
       <<3,4>>, <<4,4>>, <<4,5>>, <<5,7>>, <<5,3>>, <<4,3>>, <<5,4>>,
       <<4,1>> >>

\* the first move of test_directed_move_after_play
CentreOpening == << <<0,4>> >>

Openings == {CentreOpening, XWinsOpening, OWinsOpening, DrawOpening}

\* a game in which, with X to move, either move of X lets O win the game at once
LateOpening ==
    << <<4,0>>, <<0,6>>, <<6,7>>, <<7,7>>, <<7,2>>, <<2,4>>, <<4,8>>, <<8,2>>,
       <<2,0>>, <<0,3>>, <<3,2>>, <<2,2>>, <<2,3>>, <<3,8>>, <<8,8>>, <<8,6>>,
       <<6,6>>, <<6,1>>, <<1,4>>, <<4,7>>, <<7,4>>, <<4,6>>, <<6,2>>, <<2,1>>,
       <<1,0>>, <<0,1>>, <<1,6>>, <<6,3>>, <<3,0>>, <<0,2>>, <<2,7>>, <<7,3>>,
       <<3,3>>, <<3,6>>, <<6,0>>, <<0,0>>, <<7,0>>, <<7,6>>, <<6,5>>, <<5,0>>,
       <<5,8>>, <<8,4>>, <<4,1>>, <<1,2>>, <<2,5>>, <<5,7>>, <<7,5>>, <<5,6>>,
       <<6,4>>, <<4,2>> >>

\* 56 moves after which X is to move in any of the boards 1, 4 and 8: (1,1)
\* holds the game, after every other move O wins it with the next move
WindowOpening ==
    << <<6,3>>, <<3,8>>, <<8,7>>, <<7,7>>, <<7,3>>, <<3,2>>, <<2,8>>, <<8,8>>,
       <<8,5>>, <<5,2>>, <<2,1>>, <<1,7>>, <<7,2>>, <<2,2>>, <<2,0>>, <<0,8>>,
       <<8,6>>, <<6,0>>, <<0,6>>, <<6,5>>, <<5,3>>, <<3,5>>, <<5,0>>, <<0,7>>,
       <<7,6>>, <<6,1>>, <<1,0>>, <<0,0>>, <<0,2>>, <<2,4>>, <<4,0>>, <<0,5>>,
       <<5,5>>, <<5,7>>, <<7,8>>, <<8,1>>, <<1,5>>, <<5,4>>, <<4,5>>, <<5,6>>,
       <<6,2>>, <<2,3>>, <<4,3>>, <<6,7>>, <<7,4>>, <<4,6>>, <<6,8>>, <<8,0>>,
       <<0,4>>, <<4,4>>, <<4,7>>, <<2,6>>, <<6,6>>, <<6,4>>, <<4,1>>, <<1,6>> >>

\* the game X wins, to its end
WonOpening == XWinsOpening \o << <<4,8>> >>

\* the drawn game up to five moves before the last move of its opening: O is
\* to move in board 5, and after one more move X can win the game with (4,3)
DrawEndgame == SubSeq(DrawOpening, 1, Len(DrawOpening) - 5)

\* the position test_ai_takes_immediate_win builds by assigning the fields of
\* a new game: X on cells 0 and 1 of board 0, X to move, board 0 forced.  The
\* hash is left as the constructor set it.
ImmediateWinGame ==
    [NewGame EXCEPT !.current_player = X, !.next_board_index = <<0>>]

ImmediateWinLists == [NewLists EXCEPT ![0][0] = X, ![0][1] = X]

---------------------------------------------------------------------------
\* GameSession and its lock (hyperxo/ui.py).  The handlers of the HTTP
\* requests run on the threads of the server's pool, the task of the AI turn
\* on a thread of its own once the response is sent.

\* the request threads and the thread of the background task
Requests == {"r1", "r2"}
Background == "ai"
Threads == Requests \cup {Background}

NoThread == "none"

\* requests the first request thread makes; the second makes one
MaxRequests == 1

\* the moves the clients submit: after (4, 4) board 4 is forced, so that
\* (4, 0) is among the moves available to O
HumanMoves == {<<4, 4>>, <<4, 0>>}

\* the moves of X in a game the depth-3 engine wins as O with its 11th move,
\* (8,8), and a twelfth move submitted when the game is over: a client
\* submits them one by one, each after the AI's reply.  The replies are those
\* the search gives with exact sums.
HumanScript ==
    << <<1,4>>, <<4,3>>, <<0,4>>, <<2,4>>, <<6,0>>, <<8,0>>, <<5,7>>, <<3,4>>,
       <<2,8>>, <<7,8>>, <<6,8>>, <<0,0>> >>

\* sessions created, and the largest depth a client asks for
MaxSessions == 3
MaxDepthInput == 9

\* the depths the clients ask for
DepthInputs == 1 .. MaxDepthInput

ALLOWED_DEPTHS == {3, 5, 8}

ErrDepthRange == "depth: input should be between 3 and 8"
ErrUnsupportedDepth == "Unsupported difficulty depth"

\* the validator when every depth of the field's range is supported
ensure_supported_depth_any(value) == NoError

\* NewGameRequest.ensure_supported_depth: the error raised, or NoError
ensure_supported_depth(value) ==
    IF value \notin ALLOWED_DEPTHS THEN ErrUnsupportedDepth ELSE NoError

\* validation of NewGameRequest: the field's bounds ge=3 and le=8, then the
\* validator
validate_depth(depth) ==
    IF depth < 3 \/ depth > 8 THEN ErrDepthRange
    ELSE ensure_supported_depth(depth)

\* HyperXOGame() with the cells of its boards in the lists base .. base + 8
NewGameAt(base) ==
    __post_init__([i \in Cell |->
                     [cells |-> base + i, winner |-> None, drawn |-> FALSE]],
                  X, NoBoard)
NewListsAt(base) == [k \in base .. base + 8 |-> [j \in Cell |-> Empty]]

\* the entry of SESSIONS made by _create_session(depth) for its k-th
\* session: the game, by its name in `games`, and the engine
registered(k, depth) == [game |-> k, ai |-> MinimaxAI(O, depth)]

\* GameSession(game, ai): an empty move log and no AI turn pending
GameSession == [move_log |-> <<>>, ai_pending |-> FALSE]

\* a thread outside every handler, with `left` requests still to make
Idle(left) ==
    [pc |-> "idle", move |-> NoMove, player |-> None, schedule |-> FALSE,
     left |-> left, boards |-> <<>>, state |-> <<>>, depth |-> 0]

\* the session when no request is ever made
NoRequests ==
    /\ session = GameSession
    /\ lock = NoThread
    /\ threads = [t \in Threads |-> Idle(0)]
    /\ SESSIONS = <<>>
    /\ ROOMS = <<>>
    /\ sockets = <<>>

\* the lock with a slip: acquire() never waits
can_acquire_always(l) == TRUE

\* threading.Lock: `with session.lock` enters once no thread holds the lock
can_acquire(l) == l = NoThread

\* the check _apply_player_move makes before it plays: the detail of the
\* HTTPException raised, or NoError
ErrAIPending == "AI is completing its move"
ErrNotAllowed == "Move is not allowed on this turn"

\* the checks without the one for a pending AI turn
refusal_ignores_pending(g, L, ai_pending, move) ==
    IF g.winner # None \/ g.drawn THEN ErrFinished
    ELSE IF \A k \in 1 .. Len(available_moves(g, L)) :
               available_moves(g, L)[k] # move
    THEN ErrNotAllowed
    ELSE NoError

\* the checks when only the pending AI turn refuses a move
refusal_pending_only(g, L, ai_pending, move) ==
    IF ai_pending THEN ErrAIPending ELSE NoError

refusal(g, L, ai_pending, move) ==
    IF g.winner # None \/ g.drawn THEN ErrFinished
    ELSE IF ai_pending THEN ErrAIPending
    ELSE IF \A k \in 1 .. Len(available_moves(g, L)) :
               available_moves(g, L)[k] # move
    THEN ErrNotAllowed
    ELSE NoError

\* the status of the response: every HTTPException of _apply_player_move
\* carries status_code 400, a request that raises none is answered with 200
status_code(detail) == IF detail \in {"new", "ok"} THEN 200 ELSE 400

\* an entry of the move log with a slip: the two indices are exchanged
log_entry_swapped(player, move) ==
    [player |-> player, boardIndex |-> move[2], cellIndex |-> move[1]]

\* an entry of the move log
log_entry(player, move) ==
    [player |-> player, boardIndex |-> move[1], cellIndex |-> move[2]]

\* the test with a slip: no AI turn is ever due
should_schedule_ai_never(self, g) == FALSE

\* whether an AI turn is to be scheduled after a move
should_schedule_ai(self, g) ==
    /\ g.winner = None
    /\ ~g.drawn
    /\ g.current_player = self.player

\* the "boards" list of the serialized state: empty cells are sent as ""
serialize_boards(g, L) ==
    [i \in Cell |->
        [index |-> i,
         cells |-> [j \in Cell |->
                      IF CellsOf(g.boards[i], L)[j] \in {X, O}
                      THEN CellsOf(g.boards[i], L)[j] ELSE ""],
         winner |-> g.boards[i].winner,
         drawn |-> g.boards[i].drawn]]

\* the serialized state, given the boards list already built
serialize_state(g, L, sess, boards) ==
    [currentPlayer |-> g.current_player,
     nextBoardIndex |-> g.next_board_index,
     winner |-> g.winner,
     drawn |-> g.drawn,
     boards |-> boards,
     availableMoves |-> available_moves(g, L),
     \* a sorted list of distinct indices, given by their set
     availableBoards |-> {available_moves(g, L)[k][1] :
                            k \in 1 .. Len(available_moves(g, L))},
     moveLog |-> sess.move_log,
     aiPending |-> sess.ai_pending,
     lastMove |-> IF sess.move_log # <<>>
                  THEN sess.move_log[Len(sess.move_log)] ELSE None]

---------------------------------------------------------------------------
\* The state machine

Init ==
    /\ games = [n \in {"orig"} |-> NewGame]
    /\ lists = NewLists
    /\ result = "new"
    /\ last = [game |-> "orig", big |-> 0, cell |-> 0]
    /\ script \in Openings
    /\ free = 0
    /\ engine = MinimaxAI(O, 3)
    /\ chosen = NotCalled
    /\ NoRequests

\* the next move of the opening is played on the original game
ScriptedMove ==
    /\ script # <<>>
    /\ LET m == Head(script)
           r == play_move(games["orig"], lists, m[1], m[2])
       IN  /\ games' = [games EXCEPT !["orig"] = r.game]
           /\ lists' = r.lists
           /\ result' = IF r.raised = NoError THEN "ok" ELSE r.raised
           /\ last' = IF r.raised = NoError
                      THEN [game |-> "orig", big |-> m[1], cell |-> m[2]]
                      ELSE last
    /\ script' = Tail(script)
    /\ UNCHANGED <<free, aiVars, uiVars>>

\* the outcome of play_move(big, cell) on game n
call(n, big, cell) ==
    LET r == play_move(games[n], lists, big, cell)
    IN  [game |-> r.game, lists |-> r.lists, raised |-> r.raised,
         move |-> IF r.raised = NoError THEN <<big, cell>> ELSE <<>>]

PlayMove(n) ==
    /\ n \in DOMAIN games
    /\ \E r \in {call(n, big, cell) : big \in Idx, cell \in Idx} :
           /\ r.raised = NoError => script = <<>> /\ free < MaxMoves
           /\ games' = [games EXCEPT ![n] = r.game]
           /\ lists' = r.lists
           /\ result' = IF r.raised = NoError THEN "ok" ELSE r.raised
           /\ last' = IF r.raised = NoError
                      THEN [game |-> n, big |-> r.move[1], cell |-> r.move[2]]
                      ELSE last
           /\ free' = IF r.raised = NoError THEN free + 1 ELSE free
    /\ UNCHANGED <<script, aiVars, uiVars>>

\* clone() of the original game, taken after the opening
Clone ==
    /\ script = <<>>
    /\ LET r == clone(games["orig"], lists)
       IN  /\ games' = [n \in {"orig", "clone"} |->
                          IF n = "clone" THEN r.game ELSE games[n]]
           /\ lists' = r.lists
    /\ result' = "cloned"
    /\ UNCHANGED <<last, script, free, aiVars, uiVars>>

Next ==
    \/ ScriptedMove
    \/ \E n \in {"orig", "clone"} : PlayMove(n)
    \/ Clone

Spec == Init /\ [][Next]_vars

---------------------------------------------------------------------------
\* The engine: an opening is replayed, then choose() is called on the game,
\* the move it returns is played, and the other side replies

\* where a behaviour starts: a new game with an opening to replay, or the
\* hand-built position.  Replies are explored from the endgame of the drawn
\* game only; elsewhere the budget of replies starts used up.
Starts ==
    {[game |-> NewGame, lists |-> NewLists, script |-> DrawEndgame, free |-> 0]}
    \cup {[game |-> NewGame, lists |-> NewLists, script |-> o, free |-> MaxMoves] :
            o \in {LateOpening, WonOpening, WindowOpening}}
    \cup {[game |-> ImmediateWinGame, lists |-> ImmediateWinLists,
           script |-> <<>>, free |-> MaxMoves]}

InitAI ==
    /\ \E s \in Starts :
          /\ games = [n \in {"orig"} |-> s.game]
          /\ lists = s.lists
          /\ script = s.script
          /\ free = s.free
    /\ result = "new"
    /\ last = [game |-> "orig", big |-> 0, cell |-> 0]
    /\ engine \in {MinimaxAI(p, d) : p \in {X, O}, d \in 0 .. MaxDepth}
    /\ chosen = NotCalled
    /\ NoRequests

\* engine.choose(game); `stale` tells whether the table already held an entry
\* for the position
Choose ==
    /\ script = <<>>
    /\ ~(chosen.fresh /\ chosen.stale)
    /\ \E r \in {choose(engine, games["orig"], lists)} :
          /\ engine' = r.self
          /\ lists' = r.lists
          /\ chosen' = [fresh |-> TRUE, raised |-> r.raised, move |-> r.move,
                        scores |-> r.scores, runs |-> r.runs,
                        stale |-> _hash(games["orig"]) \in DOMAIN engine.tt]
          /\ result' = IF r.raised = NoError THEN "chosen" ELSE r.raised
    /\ UNCHANGED <<games, last, script, free, uiVars>>

\* game.play_move(*move) with the move choose returned
PlayChosen ==
    /\ chosen.fresh
    /\ chosen.raised = NoError
    /\ LET r == play_move(games["orig"], lists, chosen.move[1], chosen.move[2])
       IN  /\ games' = [games EXCEPT !["orig"] = r.game]
           /\ lists' = r.lists
           /\ result' = IF r.raised = NoError THEN "ok" ELSE r.raised
           /\ last' = IF r.raised = NoError
                      THEN [game |-> "orig", big |-> chosen.move[1],
                            cell |-> chosen.move[2]]
                      ELSE last
    /\ chosen' = NotCalled
    /\ UNCHANGED <<script, free, engine, uiVars>>

\* a legal move played by whoever is to move
Reply ==
    /\ script = <<>>
    /\ free < MaxMoves
    /\ LET moves == available_moves(games["orig"], lists)
       IN  \E k \in 1 .. Len(moves) :
              LET r == play_move(games["orig"], lists, moves[k][1], moves[k][2])
              IN  /\ r.raised = NoError
                  /\ games' = [games EXCEPT !["orig"] = r.game]
                  /\ lists' = r.lists
                  /\ last' = [game |-> "orig", big |-> moves[k][1],
                              cell |-> moves[k][2]]
    /\ result' = "ok"
    /\ free' = free + 1
    /\ chosen' = NotCalled
    /\ UNCHANGED <<script, engine, uiVars>>

NextAI == ScriptedMove \/ Choose \/ PlayChosen \/ Reply

SpecAI == InitAI /\ [][NextAI]_vars

---------------------------------------------------------------------------
\* SmallBoard.place called directly on board 0 of a new game: first the
\* placements of an opening, then any player and any index

\* X and O in turn fill the board but cell 8 with no line; either player draws it
\* with cell 8
NearDrawPlacements ==
    << <<X, 0>>, <<O, 1>>, <<X, 2>>, <<O, 4>>, <<X, 3>>, <<O, 5>>, <<X, 7>>,
       <<O, 6>> >>

\* X holds 0 and 1, O holds 3 and 4: 2 wins for X, 5 for O
NearWinPlacements == << <<X, 0>>, <<O, 3>>, <<X, 1>>, <<O, 4>> >>

PlaceOpenings == {<<>>, NearWinPlacements, NearDrawPlacements}

InitPlace ==
    /\ games = [n \in {"orig"} |-> NewGame]
    /\ lists = NewLists
    /\ result = "new"
    /\ last = [game |-> "orig", big |-> 0, cell |-> 0]
    /\ script \in PlaceOpenings
    /\ free = 0
    /\ engine = MinimaxAI(O, 3)
    /\ chosen = NotCalled
    /\ NoRequests

\* the outcome of boards[0].place(player, idx)
placed(player, idx) ==
    LET r == place(games["orig"].boards[0], lists, player, idx)
    IN  [board |-> r.board, lists |-> r.lists, raised |-> r.raised, idx |-> idx]

\* the next placement of the opening; `last` keeps the arguments of the call
ScriptedPlace ==
    /\ script # <<>>
    /\ LET r == placed(Head(script)[1], Head(script)[2])
       IN  /\ games' = [games EXCEPT !["orig"].boards[0] = r.board]
           /\ lists' = r.lists
           /\ result' = IF r.raised = NoError THEN "ok" ELSE r.raised
           /\ last' = [game |-> "orig", big |-> 0, cell |-> r.idx]
    /\ script' = Tail(script)
    /\ UNCHANGED <<free, aiVars, uiVars>>

\* boards[0].place(player, idx) after the opening
Place ==
    /\ script = <<>>
    /\ \E r \in {placed(player, idx) : player \in {X, O}, idx \in Idx} :
          /\ r.raised = NoError => free < MaxPlaced
          /\ games' = [games EXCEPT !["orig"].boards[0] = r.board]
          /\ lists' = r.lists
          /\ result' = IF r.raised = NoError THEN "ok" ELSE r.raised
          /\ last' = [game |-> "orig", big |-> 0, cell |-> r.idx]
          /\ free' = IF r.raised = NoError THEN free + 1 ELSE free
    /\ UNCHANGED <<script, aiVars, uiVars>>

NextPlace == ScriptedPlace \/ Place

SpecPlace == InitPlace /\ [][NextPlace]_vars

---------------------------------------------------------------------------
\* A session: two request threads submit moves and ask for the state while
\* the background task plays the AI's turns

\* _create_session(3): a new game, MinimaxAI("O", 3), a new GameSession
InitUI ==
    /\ games = [n \in {"orig"} |-> NewGame]
    /\ lists = NewLists
    /\ result = "new"
    /\ last = [game |-> "orig", big |-> 0, cell |-> 0]
    /\ script \in {<<>>, HumanScript}
    /\ free = 0
    /\ engine = MinimaxAI(O, 3)
    /\ chosen = NotCalled
    /\ session = GameSession
    /\ lock = NoThread
    /\ threads = [t \in Threads |->
                    Idle(IF t = "r1" THEN MaxRequests
                         ELSE IF t = "r2" THEN 1 ELSE 0)]
    /\ SESSIONS = << [game |-> "orig", ai |-> MinimaxAI(O, 3)] >>
    /\ ROOMS = <<>>
    /\ sockets = <<>>

\* POST /api/game/{id}/move arrives with the next move of the script, from
\* a client that has waited for the AI's reply to its last move
ScriptedRequest ==
    /\ script # <<>>
    /\ \A t \in Threads : threads[t].pc = "idle"
    /\ ~session.ai_pending
    /\ threads' = [threads EXCEPT !["r1"].pc = "apply",
                                  !["r1"].move = Head(script)]
    /\ script' = Tail(script)
    /\ UNCHANGED <<games, lists, result, last, free, aiVars, session, lock,
                   SESSIONS, roomVars>>

\* GET /api/game/{id} arrives: get_game is about to serialize the session
GetGame(t) ==
    /\ script = <<>>
    /\ threads[t].pc = "idle"
    /\ threads[t].left > 0
    /\ threads' = [threads EXCEPT ![t].pc = "serialize", ![t].left = @ - 1]
    /\ UNCHANGED <<gameVars, aiVars, session, lock, SESSIONS, roomVars>>

\* POST /api/game/{id}/move arrives: make_move is about to apply the move
MakeMove(t) ==
    /\ script = <<>>
    /\ threads[t].pc = "idle"
    /\ threads[t].left > 0
    /\ \E m \in HumanMoves :
          threads' = [threads EXCEPT ![t].pc = "apply", ![t].move = m,
                                     ![t].left = @ - 1]
    /\ UNCHANGED <<gameVars, aiVars, session, lock, SESSIONS, roomVars>>

\* _apply_player_move takes the lock and makes its checks; an HTTPException
\* leaves the `with` block, which releases the lock, and ends the request
ApplyCheck(t) ==
    /\ threads[t].pc = "apply"
    /\ can_acquire(lock)
    /\ \E why \in {refusal(games["orig"], lists, session.ai_pending,
                           threads[t].move)} :
          IF why # NoError
          THEN /\ result' = why
               /\ lock' = NoThread
               /\ threads' = [threads EXCEPT ![t] = Idle(threads[t].left)]
          ELSE /\ result' = result
               /\ lock' = t
               /\ threads' = [threads EXCEPT
                                ![t].pc = "play",
                                ![t].player = games["orig"].current_player]
    /\ UNCHANGED <<games, lists, last, script, free, aiVars, session, SESSIONS, roomVars>>

\* game.play_move(board_index, cell_index) of _apply_player_move
ApplyPlay(t) ==
    /\ threads[t].pc = "play"
    /\ \E r \in {play_move(games["orig"], lists, threads[t].move[1],
                           threads[t].move[2])} :
          /\ games' = [games EXCEPT !["orig"] = r.game]
          /\ lists' = r.lists
          /\ IF r.raised = NoError
             THEN /\ result' = "ok"
                  /\ last' = [game |-> "orig", big |-> threads[t].move[1],
                              cell |-> threads[t].move[2]]
                  /\ lock' = lock
                  /\ threads' = [threads EXCEPT ![t].pc = "log"]
             ELSE /\ result' = r.raised
                  /\ last' = last
                  /\ lock' = NoThread
                  /\ threads' = [threads EXCEPT ![t] = Idle(threads[t].left)]
    /\ UNCHANGED <<script, free, aiVars, session, SESSIONS, roomVars>>

\* the move is logged, the AI turn is marked pending if it is due, and the
\* lock is released
ApplyLog(t) ==
    /\ threads[t].pc = "log"
    /\ \E due \in {should_schedule_ai(engine, games["orig"])} :
          /\ session' = [move_log |-> Append(session.move_log,
                                             log_entry(threads[t].player,
                                                       threads[t].move)),
                         ai_pending |-> IF due THEN TRUE
                                        ELSE session.ai_pending]
          /\ threads' = [threads EXCEPT ![t].pc = "serialize",
                                        ![t].schedule = due]
    /\ lock' = NoThread
    /\ UNCHANGED <<gameVars, aiVars, SESSIONS, roomVars>>

\* _serialize_session takes the lock and builds the list of the boards
SerializeBoards(t) ==
    /\ threads[t].pc = "serialize"
    /\ can_acquire(lock)
    /\ lock' = t
    /\ threads' = [threads EXCEPT
                     ![t].pc = "state",
                     ![t].boards = serialize_boards(games["orig"], lists)]
    /\ UNCHANGED <<gameVars, aiVars, session, SESSIONS, roomVars>>

\* it reads the rest of the game and of the session, and releases the lock
SerializeState(t) ==
    /\ threads[t].pc = "state"
    /\ threads' = [threads EXCEPT
                     ![t].pc = "respond",
                     ![t].state = serialize_state(games["orig"], lists,
                                                  session, threads[t].boards)]
    /\ lock' = NoThread
    /\ UNCHANGED <<gameVars, aiVars, session, SESSIONS, roomVars>>

\* the response is sent; the background task added by _apply_player_move
\* starts once its thread is free
Respond(t) ==
    /\ threads[t].pc = "respond"
    /\ threads[t].schedule => threads[Background].pc = "idle"
    /\ threads' = [u \in Threads |->
                     IF u = t THEN Idle(threads[t].left)
                     ELSE IF u = Background /\ threads[t].schedule
                     THEN [threads[u] EXCEPT !.pc = "run"]
                     ELSE threads[u]]
    /\ UNCHANGED <<gameVars, aiVars, session, lock, SESSIONS, roomVars>>

\* _run_ai_turn, after its sleep, takes the lock and makes its checks; a
\* return runs the `finally` and releases the lock
AICheck ==
    /\ threads[Background].pc = "run"
    /\ can_acquire(lock)
    /\ IF \/ games["orig"].winner # None
          \/ games["orig"].drawn
          \/ games["orig"].current_player # engine.player
       THEN /\ session' = [session EXCEPT !.ai_pending = FALSE]
            /\ lock' = NoThread
            /\ threads' = [threads EXCEPT ![Background].pc = "idle"]
       ELSE /\ session' = session
            /\ lock' = Background
            /\ threads' = [threads EXCEPT ![Background].pc = "choose"]
    /\ UNCHANGED <<gameVars, aiVars, SESSIONS, roomVars>>

\* session.ai.choose(game); an exception runs the `finally` and ends the task
AIChoose ==
    /\ threads[Background].pc = "choose"
    /\ \E r \in {choose(engine, games["orig"], lists)} :
          /\ engine' = r.self
          /\ lists' = r.lists
          /\ chosen' = [fresh |-> TRUE, raised |-> r.raised, move |-> r.move,
                        scores |-> r.scores, runs |-> r.runs,
                        stale |-> _hash(games["orig"]) \in DOMAIN engine.tt]
          /\ IF r.raised = NoError
             THEN /\ result' = "chosen"
                  /\ session' = session
                  /\ lock' = lock
                  /\ threads' = [threads EXCEPT ![Background].pc = "play",
                                                ![Background].move = r.move]
             ELSE /\ result' = r.raised
                  /\ session' = [session EXCEPT !.ai_pending = FALSE]
                  /\ lock' = NoThread
                  /\ threads' = [threads EXCEPT ![Background] = Idle(0)]
    /\ UNCHANGED <<games, last, script, free, SESSIONS, roomVars>>

\* game.play_move(board_index, cell_index) of _run_ai_turn
AIPlay ==
    /\ threads[Background].pc = "play"
    /\ \E r \in {play_move(games["orig"], lists, threads[Background].move[1],
                           threads[Background].move[2])} :
          /\ games' = [games EXCEPT !["orig"] = r.game]
          /\ lists' = r.lists
          /\ IF r.raised = NoError
             THEN /\ result' = "ok"
                  /\ last' = [game |-> "orig",
                              big |-> threads[Background].move[1],
                              cell |-> threads[Background].move[2]]
                  /\ session' = session
                  /\ lock' = lock
                  /\ threads' = [threads EXCEPT ![Background].pc = "log"]
             ELSE /\ result' = r.raised
                  /\ last' = last
                  /\ session' = [session EXCEPT !.ai_pending = FALSE]
                  /\ lock' = NoThread
                  /\ threads' = [threads EXCEPT ![Background] = Idle(0)]
    /\ chosen' = NotCalled
    /\ UNCHANGED <<script, free, engine, SESSIONS, roomVars>>

\* the AI's move is logged; the `finally` clears ai_pending and the lock is
\* released
AILog ==
    /\ threads[Background].pc = "log"
    /\ session' = [move_log |-> Append(session.move_log,
                                       log_entry(engine.player,
                                                 threads[Background].move)),
                   ai_pending |-> FALSE]
    /\ lock' = NoThread
    /\ threads' = [threads EXCEPT ![Background] = Idle(0)]
    /\ UNCHANGED <<gameVars, aiVars, SESSIONS, roomVars>>

NextUI ==
    \/ ScriptedRequest
    \/ \E t \in Requests :
          \/ GetGame(t)
          \/ MakeMove(t)
          \/ ApplyCheck(t)
          \/ ApplyPlay(t)
          \/ ApplyLog(t)
          \/ SerializeBoards(t)
          \/ SerializeState(t)
          \/ Respond(t)
    \/ AICheck
    \/ AIChoose
    \/ AIPlay
    \/ AILog

SpecUI == InitUI /\ [][NextUI]_vars

\* the next step of a request thread inside its handler
ThreadStep(t) ==
    \/ ApplyCheck(t)
    \/ ApplyPlay(t)
    \/ ApplyLog(t)
    \/ SerializeBoards(t)
    \/ SerializeState(t)
    \/ Respond(t)

\* the same session when every thread that can take its next step takes it
\* in the end; requests arrive or not as the clients please.  For the call of
\* choose the condition is stated on the thread's position: the search ends
\* and the task does not stay in it for ever.
SpecUIFair ==
    /\ InitUI
    /\ [][NextUI]_vars
    /\ \A t \in Requests : WF_vars(ThreadStep(t))
    /\ WF_vars(AICheck \/ AIPlay \/ AILog)
    /\ []<>(threads[Background].pc # "choose")

---------------------------------------------------------------------------
\* Games are created: POST /api/game with any depth, from either client.
\* The k-th session stands for the one registered under the k-th uuid.

InitCreate ==
    /\ games = [n \in {} |-> NewGame]
    /\ lists = [k \in {} |-> <<>>]
    /\ result = "new"
    /\ last = [game |-> "orig", big |-> 0, cell |-> 0]
    /\ script = <<>>
    /\ free = 0
    /\ engine = MinimaxAI(O, 3)
    /\ chosen = NotCalled
    /\ NoRequests

\* POST /api/game arrives with a depth: the payload is about to be validated
PostGame(t) ==
    /\ threads[t].pc = "idle"
    /\ Len(SESSIONS) < MaxSessions
    /\ \E depth \in DepthInputs :
          threads' = [threads EXCEPT ![t].pc = "create", ![t].depth = depth]
    /\ UNCHANGED <<gameVars, aiVars, session, lock, SESSIONS, roomVars>>

\* the payload is validated; create_game runs only with a valid one and
\* registers the session made by _create_session
CreateGame(t) ==
    /\ threads[t].pc = "create"
    /\ Len(SESSIONS) < MaxSessions
    /\ \E why \in {validate_depth(threads[t].depth)} :
          IF why # NoError
          THEN /\ result' = why
               /\ UNCHANGED <<games, lists, SESSIONS>>
          ELSE LET k == Len(SESSIONS) + 1
                   base == 9 * Len(SESSIONS)
               IN  /\ games' = games @@ (k :> NewGameAt(base))
                   /\ lists' = lists @@ NewListsAt(base)
                   /\ SESSIONS' = Append(SESSIONS,
                                         registered(k, threads[t].depth))
                   /\ result' = "ok"
    /\ threads' = [threads EXCEPT ![t] = Idle(0)]
    /\ UNCHANGED <<last, script, free, aiVars, session, lock, roomVars>>

NextCreate == \E t \in Requests : PostGame(t) \/ CreateGame(t)

SpecCreate == InitCreate /\ [][NextCreate]_vars

---------------------------------------------------------------------------
\* Vocabulary of the properties, stated on the objects and not through the
\* operators above

\* the nine cells of board i of game n
TheCells(n, i) == lists[games[n].boards[i].cells]

\* board i of game n has no winner, is not drawn and has an empty cell
BoardLive(n, i) ==
    /\ games[n].boards[i].winner = None
    /\ ~games[n].boards[i].drawn
    /\ \E j \in Cell : TheCells(n, i)[j] = Empty

\* player P holds all three marks of some winning triple of the 3x3 grid c
Holds(c, P) ==
    \E k \in 1 .. Len(WINNING_LINES) :
        \A t \in 1 .. 3 : c[WINNING_LINES[k][t]] = P

Resolved(n) == games[n].winner # None \/ games[n].drawn

\* the moves the send rule allows in game n
MoveSet(n) ==
    LET nbi == games[n].next_board_index
    IN  IF nbi # NoBoard /\ BoardLive(n, nbi[1])
        THEN {<<nbi[1], j>> : j \in {j \in Cell : TheCells(n, nbi[1])[j] = Empty}}
        ELSE {m \in Cell \X Cell : BoardLive(n, m[1]) /\ TheCells(n, m[1])[m[2]] = Empty}

\* the elements of a sequence
Range(q) == {q[k] : k \in 1 .. Len(q)}

\* everything an observer can read of game n
GameView(n) ==
    [boards |-> [i \in Cell |->
                   [cells |-> TheCells(n, i),
                    winner |-> games[n].boards[i].winner,
                    drawn |-> games[n].boards[i].drawn]],
     current_player |-> games[n].current_player,
     next_board_index |-> games[n].next_board_index,
     winner |-> games[n].winner,
     drawn |-> games[n].drawn,
     hash |-> zobrist_hash(games[n])]

\* the hash of game n computed from scratch; the keys are pairwise distinct, so
\* the XOR of the active keys is their set
ScratchHash(n) ==
    {piece_key(i, j, TheCells(n, i)[j]) :
        <<i, j>> \in {m \in Cell \X Cell : TheCells(n, m[1])[m[2]] # Empty}}
    \cup (IF games[n].current_player = O THEN {stm_key} ELSE {})
    \cup {nbi_key(games[n].next_board_index)}

---------------------------------------------------------------------------
\* C1: after a successful play_move(b, c), next_board_index is c if sub-board c
\* is live as judged after the placement, and None otherwise (also when c = b
\* and the move itself resolved the board).
C1_ForcedBoardAfterMove ==
    result = "ok" =>
        games[last.game].next_board_index =
            IF BoardLive(last.game, last.cell) THEN <<last.cell>> ELSE NoBoard

\* a move on cell b of board b has just won board b, and the next move is free
C1_Witness ==
    /\ result = "ok"
    /\ last.big = last.cell
    /\ games[last.game].boards[last.cell].winner # None
    /\ games[last.game].next_board_index = NoBoard

\* C2: available_moves() is exactly the empty cells of the forced board when
\* that board is live, else exactly the empty cells of all live sub-boards (81
\* moves in the initial state), ordered by board and then by cell, and never a
\* cell of a won or drawn sub-board.
C2_AvailableMoves ==
    \A n \in DOMAIN games :
        LET m == available_moves(games[n], lists)
        IN  /\ Range(m) = MoveSet(n)
            /\ \A k \in 1 .. Len(m) - 1 :
                  \/ m[k][1] < m[k + 1][1]
                  \/ m[k][1] = m[k + 1][1] /\ m[k][2] < m[k + 1][2]
            /\ \A k \in 1 .. Len(m) :
                  /\ games[n].boards[m[k][1]].winner = None
                  /\ ~games[n].boards[m[k][1]].drawn
            /\ result = "new" => Len(m) = 81

\* a live forced board while another sub-board is live too
C2_Witness ==
    \E n \in DOMAIN games :
        LET nbi == games[n].next_board_index
        IN  /\ nbi # NoBoard
            /\ BoardLive(n, nbi[1])
            /\ \E i \in Cell \ {nbi[1]} : BoardLive(n, i)
            /\ Len(available_moves(games[n], lists)) < 9

\* C3 (as claimed): available_moves() is empty if and only if the game has a
\* winner or is drawn.
C3_EmptyIffResolved ==
    \A n \in DOMAIN games :
        (available_moves(games[n], lists) = <<>>) <=> Resolved(n)

\* C4: play_move(b, c) succeeds iff the game is unresolved and (b, c) is in
\* available_moves(); on a resolved game it raises 'game finished'; any other
\* pair (an index outside 0..8, the wrong board, a resolved board, an occupied
\* cell) raises 'illegal move'.
C4_PlayMoveOutcome ==
    \A n \in DOMAIN games :
        LET moves == Range(available_moves(games[n], lists))
            nbi == games[n].next_board_index
            resolved == Resolved(n)
            wrongBoard(b) == nbi # NoBoard /\ BoardLive(n, nbi[1]) /\ nbi[1] # b
        IN  \A b \in Idx, c \in Idx :
                LET raised == play_move(games[n], lists, b, c).raised
                    inMoves == <<b, c>> \in moves
                    bad == \/ b \notin Cell
                           \/ c \notin Cell
                           \/ /\ b \in Cell /\ c \in Cell
                              /\ \/ ~BoardLive(n, b)
                                 \/ TheCells(n, b)[c] # Empty
                                 \/ wrongBoard(b)
                IN  /\ raised = NoError <=> ~resolved /\ inMoves
                    /\ resolved => raised = ErrFinished
                    /\ ~resolved /\ ~inMoves => raised = ErrIllegal
                    /\ ~resolved /\ bad => raised = ErrIllegal

\* an illegal move has just been refused on a game that is not over
C4_Witness ==
    /\ result = ErrIllegal
    /\ \E n \in DOMAIN games : ~Resolved(n) /\ games[n].next_board_index # NoBoard

\* C5: a play_move call that fails leaves the game unchanged: boards (cells,
\* winner, drawn), current_player, next_board_index, winner, drawn and hash.
C5_FailedCallFrame ==
    [][result' \notin {"ok", "cloned", "new"} => games' = games /\ lists' = lists]_vars

\* a call on a finished game has just been refused
C5_Witness ==
    /\ result = ErrFinished
    /\ Resolved("orig")

\* C6: the game's winner is P exactly when some winning triple of the macro
\* grid consists of three sub-boards each won by P.
C6_MacroWinner ==
    \A n \in DOMAIN games :
        /\ games[n].winner \in {None, X, O}
        /\ \A P \in {X, O} :
              games[n].winner = P
              <=> Holds([i \in Cell |-> games[n].boards[i].winner], P)

\* the move just made completed a macro triple
C6_Witness ==
    /\ result = "ok"
    /\ games[last.game].winner # None

\* C7: the game is drawn exactly when it has no winner and available_moves()
\* is empty, that is when no live sub-board remains; winner and drawn are never
\* both set; blocked macro lines alone do not make a draw.
C7_MacroDrawn ==
    \A n \in DOMAIN games :
        LET noMoves == available_moves(games[n], lists) = <<>>
            bb == big_board_state(games[n])
            blocked == \A k \in 1 .. Len(WINNING_LINES) :
                          LET marks == {bb[WINNING_LINES[k][t]] : t \in 1 .. 3}
                          IN  "G" \in marks \/ {"X", "O"} \subseteq marks
        IN  /\ games[n].drawn <=> games[n].winner = None /\ noMoves
            /\ noMoves <=> ~\E i \in Cell : BoardLive(n, i)
            /\ ~(games[n].winner # None /\ games[n].drawn)
            /\ blocked /\ (\E i \in Cell : BoardLive(n, i)) => ~games[n].drawn

\* the move just made drew the game
C7_Witness ==
    /\ result = "ok"
    /\ games[last.game].drawn

\* C8: a sub-board's winner is P iff P holds a winning triple of it, it is
\* drawn iff it is full and nobody holds a triple, and never both.
C8_SubBoardState ==
    \A n \in DOMAIN games, i \in Cell :
        LET b == games[n].boards[i]
            c == TheCells(n, i)
        IN  /\ b.winner \in {None, X, O}
            /\ \A P \in {X, O} : b.winner = P <=> Holds(c, P)
            /\ b.drawn <=> /\ \A j \in Cell : c[j] # Empty
                           /\ ~Holds(c, X) /\ ~Holds(c, O)
            /\ ~(b.winner # None /\ b.drawn)

\* a game with a drawn sub-board and a sub-board won on a diagonal
C8_Witness ==
    \E n \in DOMAIN games :
        /\ \E i \in Cell : games[n].boards[i].drawn
        /\ \E i \in Cell, P \in {X, O} :
              /\ games[n].boards[i].winner = P
              /\ \E k \in 7 .. 8 :
                    \A t \in 1 .. 3 : TheCells(n, i)[WINNING_LINES[k][t]] = P

\* C9: zobrist_hash() equals the hash computed from scratch from the occupied
\* cells, the side to move and next_board_index, after any moves and clones.
C9_HashConsistent ==
    \A n \in DOMAIN games : zobrist_hash(games[n]) = ScratchHash(n)

\* a clone has just been moved, and its hash holds piece keys
C9_Witness ==
    /\ "clone" \in DOMAIN games
    /\ result = "ok"
    /\ last.game = "clone"
    /\ Cardinality(zobrist_hash(games["clone"])) > 2

\* C10: clone() returns a game equal to the original in every field, and a
\* move on either of the two leaves every field of the other unchanged.
C10_CloneIndependent ==
    [][/\ result' = "cloned" => GameView("clone")' = GameView("orig")'
       /\ result' = "ok" /\ "clone" \in DOMAIN games /\ last'.game = "clone"
            => GameView("orig")' = GameView("orig")
       /\ result' = "ok" /\ "clone" \in DOMAIN games /\ last'.game = "orig"
            => GameView("clone")' = GameView("clone")]_vars

\* the clone has just been moved and now differs from the original
C10_Witness ==
    /\ "clone" \in DOMAIN games
    /\ result = "ok"
    /\ last.game = "clone"
    /\ GameView("clone") # GameView("orig")

---------------------------------------------------------------------------
\* Vocabulary of the engine's properties.  While chosen.fresh holds, the game
\* is the one choose() was called on: the call has returned and no move has
\* been played since.

\* a choose() call: the step from before the call to after it
ChooseStep == chosen'.fresh /\ ~chosen.fresh

\* the scores an engine playing `player` gives to a position
Judge(player) == MinimaxAI(player, 0)

\* C11: in an unresolved state with the engine's player to move, choose
\* returns a member of available_moves(), whatever the configured depth and
\* whatever the transposition table holds from earlier calls in the game.
C11_ChooseReturnsLegalMove ==
    (/\ chosen.fresh
     /\ ~Resolved("orig")
     /\ games["orig"].current_player = engine.player)
        => /\ chosen.raised = NoError
           /\ chosen.move \in MoveSet("orig")
           /\ chosen.move \in Range(available_moves(games["orig"], lists))

\* a depth-3 engine has chosen a legal move in a position for which its
\* table already held an entry of an earlier call
C11_Witness ==
    /\ chosen.fresh
    /\ chosen.stale
    /\ engine.depth = 3
    /\ ~Resolved("orig")
    /\ chosen.move \in MoveSet("orig")
    /\ Cardinality(MoveSet("orig")) > 1

\* the largest and the smallest of a non-empty set of numbers
Largest(S) == CHOOSE v \in S : \A w \in S : w <= v
Smallest(S) == CHOOSE v \in S : \A w \in S : v <= w

\* plain minimax to the given depth over the evaluation of `player`: every
\* legal move of every node is searched, with no window, no table and no
\* ordering
RECURSIVE FullMinimax(_, _, _, _, _)
FullMinimax(player, g, L, depth, maximizing) ==
    IF depth = 0 \/ g.winner # None \/ g.drawn
    THEN _evaluate(Judge(player), g, L)
    ELSE LET moves == Range(available_moves(g, L))
             scores == {FullMinimax(player, c.game, c.lists, depth - 1,
                                    ~maximizing) :
                          c \in {child_of(g, L, m) : m \in moves}}
         IN  IF moves = {} THEN (IF maximizing THEN 0 - Inf ELSE Inf)
             ELSE IF maximizing THEN Largest(scores) ELSE Smallest(scores)

\* C12: the score _minimax returns for depth d, called as choose calls it
\* (table, move ordering, window), equals the score of plain minimax to depth
\* d over the same evaluation.
C12_AlphaBetaEqualsMinimax ==
    chosen.fresh =>
        \A d \in 1 .. Len(chosen.scores) :
            chosen.scores[d] =
                FullMinimax(engine.player, games["orig"], lists, d, TRUE)

\* the position of test_ai_takes_immediate_win: X on cells 0 and 1 of board 0,
\* every other cell empty, X to move, board 0 forced
ImmediateWinPosition ==
    /\ \A i \in Cell : \A j \in Cell :
          TheCells("orig", i)[j] = IF i = 0 /\ j \in {0, 1} THEN X ELSE Empty
    /\ games["orig"].current_player = X
    /\ games["orig"].next_board_index = <<0>>

\* C13: in that position choose() of an engine playing X with depth >= 1
\* returns (0, 2), the move that wins board 0.
C13_TakesImmediateWin ==
    (/\ chosen.fresh
     /\ ImmediateWinPosition
     /\ engine.player = X
     /\ engine.depth >= 1)
        => chosen.raised = NoError /\ chosen.move = <<0, 2>>

\* C14: choose on a position that is resolved or has no legal moves, called
\* on the engine's turn, fails with the 'no legal moves' error and returns no
\* move.
C14_NoMovesError ==
    (/\ chosen.fresh
     /\ games["orig"].current_player = engine.player
     /\ (Resolved("orig") \/ MoveSet("orig") = {}))
        => chosen.raised = ErrNoMoves /\ chosen.move = NoMove

\* C15: choose called when the player to move is not the engine's fails with
\* the wrong-turn error before any iteration of the search, and leaves the
\* game and the engine with its table as they were.
C15_WrongTurnRejected ==
    [][ChooseStep /\ games["orig"].current_player # engine.player
          => /\ chosen'.raised = ErrTurn
             /\ chosen'.move = NoMove
             /\ chosen'.scores = <<>>
             /\ engine' = engine
             /\ GameView("orig")' = GameView("orig")]_vars

\* a call on the other side's turn was refused by an engine whose table holds
\* the entries of an earlier search
C15_Witness ==
    /\ chosen.fresh
    /\ chosen.raised = ErrTurn
    /\ games["orig"].current_player # engine.player
    /\ DOMAIN engine.tt # {}

\* C16: a choose call, whether it returns or raises, leaves the boards,
\* current_player, next_board_index, winner, drawn and hash of its game as
\* they were.
C16_ChooseLeavesGame ==
    [][ChooseStep => GameView("orig")' = GameView("orig")]_vars

\* a depth-3 search has returned a move and filled the table with the
\* positions it played through
C16_Witness ==
    /\ chosen.fresh
    /\ chosen.raised = NoError
    /\ Len(chosen.scores) = 3
    /\ Cardinality(DOMAIN engine.tt) > 10
    /\ \E h \in DOMAIN engine.tt : h # _hash(games["orig"])

\* the value an engine playing `player` gives to the game as it stands
Value(player) == _evaluate(Judge(player), games["orig"], lists)

\* C17: without a macro winner _evaluate lies strictly between -10000 and
\* +10000, so a won game scores strictly higher, and a lost one strictly
\* lower, than any game without a winner.
C17_EvaluateBelowWin ==
    \A player \in {X, O} :
        /\ games["orig"].winner = None
              => 0 - WinScore < Value(player) /\ Value(player) < WinScore
        /\ games["orig"].winner = player => Value(player) = WinScore
        /\ games["orig"].winner = opponent(player)
              => Value(player) = 0 - WinScore

\* a game without a winner in which a player holds two sub-boards of a macro
\* line that is still open, and is ahead by more than 20.0 in the evaluation
C17_Witness ==
    /\ games["orig"].winner = None /\ ~games["orig"].drawn
    /\ \E player \in {X, O} :
          /\ Value(player) > 200
          /\ \E k \in 1 .. Len(WINNING_LINES) :
                LET marks == trio(big_board_state(games["orig"]), k)
                IN  count(marks, player) = 2 /\ count(marks, ".") = 1

---------------------------------------------------------------------------
\* board 0 of the original game as an observer reads it
Board0 ==
    [cells |-> TheCells("orig", 0),
     winner |-> games["orig"].boards[0].winner,
     drawn |-> games["orig"].boards[0].drawn]

\* C18: place with a cell index outside 0..8, negative ones included, fails
\* with an out-of-range error and leaves cells, winner and drawn unchanged.
C18_OutOfRangeRejected ==
    [][last'.cell \notin Cell => result' = ErrIndex /\ Board0' = Board0]_vars

\* C19: place on a resolved board or on a non-empty cell fails and leaves the
\* board unchanged; so a non-empty cell never changes, and a resolved board
\* keeps its cells, winner and drawn.
C19_PlacedCellsAreFinal ==
    [][LET b == Board0
           idx == last'.cell
           resolved == b.winner # None \/ b.drawn
       IN  /\ (resolved \/ (idx \in Cell /\ b.cells[idx] # Empty))
                 => result' \in {ErrResolved, ErrOccupied} /\ Board0' = b
           /\ \A j \in Cell : b.cells[j] # Empty => Board0'.cells[j] = b.cells[j]
           /\ resolved => Board0' = b]_vars

\* a call on a cell that X holds was refused, on a board O has not resolved
C19_Witness ==
    /\ result = ErrOccupied
    /\ last.cell \in Cell /\ Board0.cells[last.cell] = X
    /\ Board0.winner = None /\ ~Board0.drawn

---------------------------------------------------------------------------
\* a thread is inside a human move, an AI turn or a serialization: it has
\* entered the handler's `with session.lock` block and not left it
InSection(t) == threads[t].pc \in {"play", "log", "state", "choose"}

\* a serialized state shows the session between two moves: every mark on its
\* boards is a logged move and every logged move a mark, the side to move is
\* the one after the last logged move, an AI turn is pending exactly when O
\* is to move in an unfinished game, and the moves offered are empty cells
Whole(st) ==
    /\ Cardinality({m \in Cell \X Cell : st.boards[m[1]].cells[m[2]] # ""})
          = Len(st.moveLog)
    /\ \A k \in 1 .. Len(st.moveLog) :
          st.boards[st.moveLog[k].boardIndex].cells[st.moveLog[k].cellIndex]
              = st.moveLog[k].player
    /\ st.currentPlayer = IF Len(st.moveLog) % 2 = 0 THEN X ELSE O
    /\ st.aiPending
          <=> (st.currentPlayer = O /\ st.winner = None /\ ~st.drawn)
    /\ \A k \in 1 .. Len(st.availableMoves) :
          st.boards[st.availableMoves[k][1]].cells[st.availableMoves[k][2]]
              = ""

\* C20: within a session a human move, the AI turn and a serialization never
\* run at the same time, whatever the interleaving of the request threads and
\* the background task, and no serialized state is taken in the middle of a
\* move.
C20_SessionSerialized ==
    /\ \A t \in Threads : \A u \in Threads :
          InSection(t) /\ InSection(u) => t = u
    /\ \A t \in Requests :
          threads[t].pc = "respond" => Whole(threads[t].state)

\* the AI turn is under way, between choose and play_move, while a request
\* thread waits for the lock
C20_Witness ==
    /\ threads[Background].pc = "play"
    /\ lock = Background
    /\ \E t \in Requests : threads[t].pc \in {"apply", "serialize"}

---------------------------------------------------------------------------
\* the marks on the boards of the session's game
Marks == {m \in Cell \X Cell : TheCells("orig", m[1])[m[2]] # Empty}

\* the response to an accepted move that left the game unresolved reports O
\* to move and the AI turn pending
AcceptedResponse(t) ==
    (/\ threads[t].pc = "respond"
     /\ threads[t].move # NoMove
     /\ threads[t].state.winner = None
     /\ ~threads[t].state.drawn)
        => /\ threads[t].state.currentPlayer = O
           /\ threads[t].state.aiPending
           /\ threads[t].state.lastMove =
                 log_entry(X, threads[t].move)

\* ai_pending is cleared by a step that logs one move of O, with the game
\* holding that move and X to move or the game over; while it stays set the
\* log does not change
AITurnLogged ==
    /\ session.ai_pending /\ session'.ai_pending
          => session'.move_log = session.move_log
    /\ session.ai_pending /\ ~session'.ai_pending
          => /\ Len(session'.move_log) = Len(session.move_log) + 1
             /\ SubSeq(session'.move_log, 1, Len(session.move_log))
                   = session.move_log
             /\ LET e == session'.move_log[Len(session'.move_log)]
                IN  /\ e.player = O
                    /\ lists'[games'["orig"].boards[e.boardIndex].cells]
                             [e.cellIndex] = O
             /\ Cardinality(Marks') = Len(session'.move_log)
             /\ games'["orig"].current_player = X \/ Resolved("orig")'

\* C21: the response to an accepted human move that leaves the game
\* unresolved reports currentPlayer O and aiPending true; then, the threads
\* being scheduled fairly, exactly one move of O is applied and logged,
\* ai_pending is false again, and X is to move or the game is resolved.
C21_AITurnFollows ==
    /\ [](\A t \in Requests : AcceptedResponse(t))
    /\ [][AITurnLogged]_vars
    /\ (session.ai_pending ~> ~session.ai_pending)

\* the AI has answered a human move: its move is the last of the log and X is
\* to move again
C21_Witness ==
    /\ ~session.ai_pending
    /\ Len(session.move_log) >= 2
    /\ session.move_log[Len(session.move_log)].player = O
    /\ games["orig"].current_player = X
    /\ ~Resolved("orig")

---------------------------------------------------------------------------
\* thread t's move request passes the checks of _apply_player_move in this step
Checked(t) == threads[t].pc = "apply" /\ threads'[t].pc # "apply"

\* the move of thread t's request is none of the moves available now
NotAvailable(t) ==
    threads[t].move \notin Range(available_moves(games["orig"], lists))

\* the request of thread t ends in this step with status 400 and nothing of
\* the session or its game has changed, nor is an AI turn on its way
Rejected(t) ==
    /\ status_code(result') = 400
    /\ GameView("orig")' = GameView("orig")
    /\ session' = session
    /\ threads'[t] = Idle(threads[t].left)
    /\ threads'[Background] = threads[Background]

\* C22: a move request on a finished game, or for a move that is not legal
\* now (an occupied cell, a board other than the forced one), is rejected
\* with HTTP 400; the game, the move log and ai_pending stay as they were and
\* no AI turn is scheduled.
C22_IllegalMoveRejected ==
    [][\A t \in Requests :
          Checked(t) /\ (Resolved("orig") \/ NotAvailable(t)) => Rejected(t)]_vars

\* a request for a move that is not available was refused while the game
\* goes on and no AI turn is pending
C22_Witness ==
    /\ result = ErrNotAllowed
    /\ ~Resolved("orig")
    /\ ~session.ai_pending
    /\ session.move_log # <<>>

---------------------------------------------------------------------------
\* the AI turns that are scheduled and not yet over: those a request thread
\* is about to hand to the background tasks, and the one the task is running
Outstanding ==
    Cardinality({t \in Requests : threads[t].schedule})
        + (IF threads[Background].pc = "idle" THEN 0 ELSE 1)

\* C24: while ai_pending is true every human move request is rejected with
\* HTTP 400 and changes neither the game nor the move log, so that at most
\* one AI turn is outstanding at any time: one while ai_pending is true, none
\* while it is false.
C24_OneAITurnOutstanding ==
    /\ [](Outstanding = IF session.ai_pending THEN 1 ELSE 0)
    /\ [][\A t \in Requests :
             Checked(t) /\ session.ai_pending => Rejected(t)]_vars

\* a move that is among the moves available to O was submitted during the AI
\* turn and refused
C24_Witness ==
    /\ result = ErrAIPending
    /\ session.ai_pending
    /\ <<4, 0>> \in Range(available_moves(games["orig"], lists))

---------------------------------------------------------------------------
\* thread t's request to create a game is answered in this step
Answered(t) == threads[t].pc = "create" /\ threads'[t].pc # "create"

---------------------------------------------------------------------------
\* the marks of player P on the boards of game n
CountOf(n, P) ==
    Cardinality({m \in Cell \X Cell : TheCells(n, m[1])[m[2]] = P})

\* game n is the same object after the step: the name "clone" is bound to a
\* new object by every clone()
StillThere(n) == ~(result' = "cloned" /\ n = "clone")

\* C25: X moves first and the player to move changes with every successful
\* play_move and with nothing else, so that the boards hold as many X as O
\* when X is to move and one X more when O is to move.
C25_TurnParity ==
    /\ [](\A n \in DOMAIN games :
             CountOf(n, X) = CountOf(n, O)
                               + (IF games[n].current_player = O THEN 1 ELSE 0))
    /\ [][\A n \in DOMAIN games :
             StillThere(n) =>
             (games'[n].current_player # games[n].current_player
                <=> /\ result' = "ok"
                    /\ last'.game = n
                    /\ CountOf(n, X)' + CountOf(n, O)'
                          = CountOf(n, X) + CountOf(n, O) + 1)]_vars

\* X has just won the game: the turn has passed to O all the same, with one
\* X more than O on the boards
C25_Witness ==
    /\ result = "ok"
    /\ games[last.game].winner = X
    /\ games[last.game].current_player = O
    /\ CountOf(last.game, X) = CountOf(last.game, O) + 1

\* C26: when next_board_index is a board i, board i is live: it has no winner,
\* is not drawn and has an empty cell.
C26_ForcedBoardLive ==
    \A n \in DOMAIN games :
       games[n].next_board_index # NoBoard
          => BoardLive(n, games[n].next_board_index[1])

\* after the opening a move has sent the player to move to a live board,
\* while another board is won
C26_Witness ==
    \E n \in DOMAIN games :
       /\ games[n].next_board_index # NoBoard
       /\ \E i \in Cell : games[n].boards[i].winner # None
       /\ last.game = n
       /\ result = "ok"
       /\ free > 0

---------------------------------------------------------------------------
\* the iterations of choose when each of them is given the full window
RECURSIVE deepen_full(_, _, _, _, _)
deepen_full(self, g, L, d, best_move) ==
    IF d > max(1, self.depth) THEN best_move
    ELSE Only({deepen_full(r.self, g, r.lists, d + 1,
                           IF r.move # NoMove THEN r.move ELSE best_move) :
                 r \in {_minimax(self, g, L, d, 0 - Inf, Inf, TRUE)}})

\* the plain minimax value, to the engine's depth, of a move in the position
\* of the original game
MoveValue(self, move) ==
    Only({FullMinimax(self.player, c.game, c.lists, max(1, self.depth) - 1,
                      FALSE) :
            c \in {child_of(games["orig"], lists, move)}})

\* C27: the window of 50 around the last score does not change the outcome
\* of choose: the move it returns has the same minimax value, to the
\* engine's depth, as the move returned when every iteration is given the
\* full window.
C27_WindowKeepsOutcome ==
    [][ChooseStep /\ chosen'.raised = NoError /\ chosen'.scores # <<>>
          => MoveValue(engine, chosen'.move)
                = MoveValue(engine, deepen_full(engine, games["orig"], lists,
                                                1, NoMove))]_vars

---------------------------------------------------------------------------
\* C28: with a depth D >= 1, choose called on the engine's turn comes to an
\* end having run the iterations d = 1, 2, ..., D, in that order and each to
\* its end, and the move it returns is the move of iteration D.
C28_IterationsInOrder ==
    (chosen.fresh /\ engine.depth >= 1 /\ chosen.raised # ErrTurn)
        => /\ Len(chosen.runs) = engine.depth
           /\ \A d \in 1 .. Len(chosen.runs) : chosen.runs[d].depth = d
           /\ chosen.raised = NoError
                 => chosen.move = chosen.runs[engine.depth].move

\* C29: with a depth D < 1 no iteration of the search produces a move, and
\* choose returns the first move of available_moves().
C29_NoIterationBelowOne ==
    (chosen.fresh /\ engine.depth < 1 /\ chosen.raised = NoError)
        => /\ \A d \in 1 .. Len(chosen.runs) : chosen.runs[d].move = NoMove
           /\ chosen.move = available_moves(games["orig"], lists)[1]

\* the entries of the engine's table
Entries == {engine.tt[key] : key \in DOMAIN engine.tt}

\* C30: an entry of the table has flag EXACT only if the loop over the moves
\* ran to its end with no cutoff; an entry stored after a cutoff has flag
\* LOWER at a maximizing node and UPPER at a minimizing node.
C30_FlagTellsCutoff ==
    \A e \in Entries :
       /\ e.flag = EXACT => ~e.cutoff
       /\ e.cutoff => e.flag = IF e.maximizing THEN LOWER ELSE UPPER

---------------------------------------------------------------------------
\* C31: at a node of the search for which the table holds an entry whose
\* best move is legal in the node's position, that move is the first move
\* searched.  Stated of the root node of every iteration of choose.
C31_TableMoveFirst ==
    chosen.fresh =>
        \A d \in 1 .. Len(chosen.runs) :
            chosen.runs[d].pv \in Range(available_moves(games["orig"], lists))
                => chosen.runs[d].first = chosen.runs[d].pv

---------------------------------------------------------------------------
\* _evaluate of game n by an engine that plays `player`
EvaluateAs(n, player) == _evaluate(Judge(player), games[n], lists)

\* C32: the evaluation of a state by an engine playing X is the negation of
\* its evaluation by an engine playing O; a game won by the engine's side
\* scores +10000, a game won by the opponent -10000, a drawn game 0 (the
\* scores are counted in tenths).
C32_EvaluateAntisymmetric ==
    \A n \in DOMAIN games :
       /\ EvaluateAs(n, X) = 0 - EvaluateAs(n, O)
       /\ \A P \in {X, O} :
             /\ games[n].winner = P => EvaluateAs(n, P) = 10 * 10000
             /\ games[n].winner = opponent(P) => EvaluateAs(n, P) = 0 - 10 * 10000
             /\ games[n].drawn => EvaluateAs(n, P) = 0

\* an unresolved game with boards won, which X's engine scores above 0 and
\* O's engine below
C32_Witness ==
    /\ ~Resolved("orig")
    /\ \E i \in Cell : games["orig"].boards[i].winner = X
    /\ EvaluateAs("orig", X) > 0
    /\ EvaluateAs("orig", O) < 0

---------------------------------------------------------------------------
\* C33: over the life of an engine, through the iterations and from one
\* choose call to the next, the depth of the table's entry for a hash never
\* goes down: an entry is replaced only by the entry of a search of at
\* least its depth.
C33_EntryDepthNeverDrops ==
    /\ [](\A e \in Entries : ~e.lowered)
    /\ [][\A key \in DOMAIN engine.tt :
             /\ key \in DOMAIN engine'.tt
             /\ engine'.tt[key].depth >= engine.tt[key].depth]_vars

\* choose has been called a second time on a position whose entry has the
\* engine's full depth, and has added nothing to the table
C33_Witness ==
    /\ chosen.fresh
    /\ chosen.stale
    /\ engine.depth = 3
    /\ ~Resolved("orig")
    /\ _hash(games["orig"]) \in DOMAIN engine.tt
    /\ engine.tt[_hash(games["orig"])].depth = 3
    /\ Len(chosen.runs) = 3

---------------------------------------------------------------------------
\* the cells of game n whose content the step changes
Changed(n) ==
    {m \in Cell \X Cell :
        lists'[games'[n].boards[m[1]].cells][m[2]] # TheCells(n, m[1])[m[2]]}

\* some move of available_moves is accepted by play_move on game n
HasLegalMove(n) ==
    \E m \in Range(available_moves(games[n], lists)) :
        play_move(games[n], lists, m[1], m[2]).raised = NoError

\* C34: every game ends.  A successful play_move fills exactly one cell that
\* was empty, and an unresolved game has a legal move: so a game has at most
\* 81 successful moves, and when no further move succeeds its winner or its
\* drawn flag is set.
C34_GameTerminates ==
    /\ [](\A n \in DOMAIN games :
             /\ ~Resolved(n) => HasLegalMove(n)
             /\ CountOf(n, X) + CountOf(n, O) <= 81
             /\ CountOf(n, X) + CountOf(n, O) = 81 => Resolved(n))
    /\ [][\A n \in DOMAIN games :
             StillThere(n) =>
                IF result' = "ok" /\ last'.game = n
                THEN /\ Changed(n) = {<<last'.big, last'.cell>>}
                     /\ TheCells(n, last'.big)[last'.cell] = Empty
                     /\ lists'[games'[n].boards[last'.big].cells][last'.cell]
                            = games[n].current_player
                ELSE Changed(n) = {}]_vars

\* a successful move has ended a game in a draw: no move is left
C34_Witness ==
    /\ result = "ok"
    /\ games[last.game].drawn
    /\ games[last.game].winner = None
    /\ ~HasLegalMove(last.game)
    /\ \A i \in Cell : ~BoardLive(last.game, i)

---------------------------------------------------------------------------
\* the player to move that a hash encodes
MoverOf(key) == IF stm_key \in key THEN O ELSE X

\* C35: every _minimax call of choose is maximizing exactly when the player
\* to move at its node is the engine's player; so a hash is searched and
\* stored by calls of one kind only, and an entry that a probe uses was
\* stored by a call of the kind that uses it.
C35_RoleFollowsTurn ==
    /\ engine.aligned
    /\ \A key \in DOMAIN engine.tt :
          engine.tt[key].maximizing <=> (MoverOf(key) = engine.player)

\* choose has searched maximizing and minimizing nodes, on a game whose
\* position the table already held
C35_Witness ==
    /\ chosen.fresh
    /\ chosen.stale
    /\ chosen.raised = NoError
    /\ \E e \in Entries : e.maximizing
    /\ \E e \in Entries : ~e.maximizing

---------------------------------------------------------------------------
\* the step is a successful play_move on game n, which was unresolved
MovedOn(n) ==
    /\ result' = "ok"
    /\ last'.game = n
    /\ ~Resolved(n)

\* C36: a sub-board winner or a game winner that play_move sets is the player
\* who made the move, never the opponent; and the outcome of a game, once
\* its winner or its drawn flag is set, does not change again.
C36_WinnerIsMover ==
    [][\A n \in DOMAIN games :
          StillThere(n) =>
             /\ \A i \in Cell :
                   games'[n].boards[i].winner # games[n].boards[i].winner
                      => /\ MovedOn(n)
                         /\ i = last'.big
                         /\ games[n].boards[i].winner = None
                         /\ games'[n].boards[i].winner = games[n].current_player
             /\ games'[n].winner # games[n].winner
                   => /\ MovedOn(n)
                      /\ games'[n].winner = games[n].current_player
                      /\ games'[n].boards[last'.big].winner = games[n].current_player
                      /\ games[n].boards[last'.big].winner = None
             /\ games'[n].drawn # games[n].drawn
                   => MovedOn(n) /\ games'[n].drawn /\ games'[n].winner = None
             /\ Resolved(n)
                   => /\ games'[n].winner = games[n].winner
                      /\ games'[n].drawn = games[n].drawn]_vars

\* the last move won its sub-board and with it the game for the mover, who
\* is O
C36_Witness ==
    /\ result = "ok"
    /\ games[last.game].winner = O
    /\ games[last.game].boards[last.big].winner = O
    /\ TheCells(last.game, last.big)[last.cell] = O
    /\ games[last.game].current_player = X

---------------------------------------------------------------------------
\* the move log tells the game: one entry for every occupied cell, X and O
\* in turn from X on, and each entry's cell holding the entry's player
LogTellsGame ==
    /\ Len(session.move_log) = Cardinality(Marks)
    /\ \A k \in 1 .. Len(session.move_log) :
          LET entry == session.move_log[k]
          IN  /\ entry.player = (IF k % 2 = 1 THEN X ELSE O)
              /\ entry.boardIndex \in Cell
              /\ entry.cellIndex \in Cell
              /\ TheCells("orig", entry.boardIndex)[entry.cellIndex] = entry.player

\* C37: whenever the session's lock is free the move log is consistent with
\* the game: its length is the number of occupied cells, its entries are by
\* X and O in turn starting with X, and the cell each entry names holds the
\* entry's player; a human move and an AI move each append their one entry
\* in the critical section of their play_move.
C37_LogMatchesGame ==
    /\ lock = NoThread => LogTellsGame
    /\ lock # NoThread =>
          Len(session.move_log) \in {Cardinality(Marks), Cardinality(Marks) - 1}

\* the lock is free after a human move and the AI's reply have been logged
C37_Witness ==
    /\ lock = NoThread
    /\ Len(session.move_log) = 2
    /\ session.move_log[1].player = X
    /\ session.move_log[2].player = O
    /\ Cardinality(Marks) = 2

---------------------------------------------------------------------------
\* the game is unresolved and O, the AI's player, is to move
AIToMove == ~Resolved("orig") /\ games["orig"].current_player = O

\* C38: in a session served through the HTTP endpoints, whenever the lock is
\* free, ai_pending is true exactly when the game is unresolved and O is to
\* move; so every human move that is accepted is played as X, and the AI's
\* turn finds the game unresolved with O to move.
C38_PendingTellsTurn ==
    /\ lock = NoThread => (session.ai_pending <=> AIToMove)
    /\ \A t \in Requests :
          threads[t].pc \in {"play", "log"} => threads[t].player = X
    /\ threads[Background].pc = "run" => session.ai_pending
    /\ threads[Background].pc \in {"choose", "play"} => AIToMove

\* the AI's turn is pending with the lock free, after a human move played as
\* X and answered
C38_Witness ==
    /\ lock = NoThread
    /\ session.ai_pending
    /\ AIToMove
    /\ threads[Background].pc = "run"
    /\ session.move_log # <<>>
    /\ session.move_log[Len(session.move_log)].player = X

---------------------------------------------------------------------------
\* Signaling rooms: websockets connect to /ws/room/{room_id}, all with the
\* same room code, while rooms are created through POST /api/room.  The
\* handlers are coroutines of one event loop: a handler runs without
\* interruption from one wait for the network to the next, and ROOM_LOCK is
\* never held across such a wait, so that it is free whenever a handler asks
\* for it; an action is the run of a handler between two waits.

\* the websockets, the connections they make in all and the messages their
\* clients send in all
Sockets == {"w1", "w2", "w3"}
MaxConnects == 4
MaxMessages == 1

\* the room code of the connections, as normalized by strip().upper()
Code == "AB12CD"

\* Room(room_id): no host and no guest
Room == [host |-> None, guest |-> None]

\* Room.other with a slip: the peer asking is not looked at
other_first(room, websocket) ==
    IF room.host # None THEN room.host ELSE room.guest

\* Room.other(websocket)
other(room, websocket) ==
    IF websocket = room.host THEN room.guest
    ELSE IF websocket = room.guest THEN room.host
    ELSE IF room.host # None THEN room.host ELSE room.guest

\* _cleanup_rooms(), `old` being the codes of the rooms created at least
\* ROOM_TTL_SECONDS ago
_cleanup_rooms(rooms, old) ==
    LET expired == {c \in DOMAIN rooms :
                      /\ rooms[c].host = None
                      /\ rooms[c].guest = None
                      /\ c \in old}
    IN  [c \in DOMAIN rooms \ expired |-> rooms[c]]

\* ROOMS after _get_room(room_id, create=True); the room it returns is the
\* one under room_id
_get_room(rooms, room_id, old) ==
    LET kept == _cleanup_rooms(rooms, old)
    IN  IF room_id \in DOMAIN kept THEN kept ELSE (room_id :> Room) @@ kept

\* the choice of the role with a slip: a connection that finds the host's
\* place taken always takes the guest's
role_for_second(room) ==
    IF room.host = None THEN "host" ELSE "guest"

\* the role room_signaling gives a connection: None when the room is full
role_for(room) ==
    IF room.host = None THEN "host"
    ELSE IF room.guest = None THEN "guest"
    ELSE None

\* the room once the websocket has taken the place of its role
seated(room, role, websocket) ==
    IF role = "host" THEN [room EXCEPT !.host = websocket]
    ELSE IF role = "guest" THEN [room EXCEPT !.guest = websocket]
    ELSE room

\* ROOMS after the `finally` of room_signaling for the websocket
vacated(rooms, room_id, websocket) ==
    IF room_id \notin DOMAIN rooms THEN rooms
    ELSE LET r == rooms[room_id]
             left == [host |-> IF r.host = websocket THEN None ELSE r.host,
                      guest |-> IF r.guest = websocket THEN None ELSE r.guest]
         IN  IF left.host = None /\ left.guest = None
             THEN [c \in DOMAIN rooms \ {room_id} |-> rooms[c]]
             ELSE [rooms EXCEPT ![room_id] = left]

\* a websocket nobody is connected to, after `connects` connections on which
\* `sent` messages came in; the inbox is what the client got before the close
Closed(connects, sent, inbox) ==
    [pc |-> "closed", role |-> None, inbox |-> inbox, connects |-> connects,
     sent |-> sent]

\* the connections made and the messages sent so far
Connects(S) == S["w1"].connects + S["w2"].connects + S["w3"].connects
Sent(S) == S["w1"].sent + S["w2"].sent + S["w3"].sent

\* target.send_json(message), where target may be None: the client of the
\* target gets the message; on a closed websocket the call raises
\* RuntimeError, which the handlers pass over
send_json(S, target, message) ==
    IF target = None THEN S
    ELSE IF S[target].pc = "closed" THEN S
    ELSE [S EXCEPT ![target].inbox = Append(@, message)]

\* the messages of the server; "from" is kept for the properties only
RoomFull == [type |-> "error", message |-> "Room is full", from |-> None]
RoleIs(role) == [type |-> "role", message |-> role, from |-> None]
PeerStatus(status) == [type |-> "peer-status", message |-> status, from |-> None]
Signal(websocket) == [type |-> "signal", message |-> "sdp", from |-> websocket]

\* no game, no session and no room; every websocket closed
InitRoom ==
    /\ games = [n \in {} |-> NewGame]
    /\ lists = [k \in {} |-> <<>>]
    /\ result = "new"
    /\ last = [game |-> "orig", big |-> 0, cell |-> 0]
    /\ script = <<>>
    /\ free = 0
    /\ engine = MinimaxAI(O, 3)
    /\ chosen = NotCalled
    /\ session = GameSession
    /\ lock = NoThread
    /\ threads = [t \in Threads |-> Idle(0)]
    /\ SESSIONS = <<>>
    /\ ROOMS = <<>>
    /\ sockets = [w \in Sockets |-> Closed(0, 0, <<>>)]

\* POST /api/room when the code generated is Code: the room is created
\* unless the code is in use, in which case another code is tried
CreateRoom ==
    /\ \E old \in SUBSET {Code} :
          LET kept == _cleanup_rooms(ROOMS, old)
          IN  ROOMS' = IF Code \in DOMAIN kept THEN kept
                       ELSE (Code :> Room) @@ kept
    /\ UNCHANGED <<gameVars, aiVars, session, lock, threads, SESSIONS, sockets>>

\* a client connects: websocket.accept()
WsAccept(w) ==
    /\ sockets[w].pc = "closed"
    /\ Connects(sockets) < MaxConnects
    /\ sockets' = [sockets EXCEPT
                     ![w] = [pc |-> "accepted", role |-> None, inbox |-> <<>>,
                             connects |-> sockets[w].connects + 1,
                             sent |-> sockets[w].sent]]
    /\ UNCHANGED <<gameVars, aiVars, session, lock, threads, SESSIONS, ROOMS>>

\* the room is looked up or created and the role is chosen
WsEnter(w) ==
    /\ sockets[w].pc = "accepted"
    /\ \E old \in SUBSET {Code} :
          LET rooms == _get_room(ROOMS, Code, old)
              role == role_for(rooms[Code])
          IN  /\ ROOMS' = [rooms EXCEPT ![Code] = seated(@, role, w)]
              /\ sockets' = [sockets EXCEPT
                               ![w].pc = IF role = None THEN "full" ELSE "role",
                               ![w].role = role]
    /\ UNCHANGED <<gameVars, aiVars, session, lock, threads, SESSIONS>>

\* the room was full: the error is sent and the websocket closed
WsFull(w) ==
    /\ sockets[w].pc = "full"
    /\ sockets' = [sockets EXCEPT
                     ![w] = Closed(sockets[w].connects, sockets[w].sent,
                                   Append(sockets[w].inbox, RoomFull))]
    /\ UNCHANGED <<gameVars, aiVars, session, lock, threads, SESSIONS, ROOMS>>

\* the role is sent to the client
WsRole(w) ==
    /\ sockets[w].pc = "role"
    /\ sockets' = [sockets EXCEPT
                     ![w].inbox = Append(@, RoleIs(sockets[w].role)),
                     ![w].pc = IF sockets[w].role = "guest" THEN "joined"
                               ELSE "open"]
    /\ UNCHANGED <<gameVars, aiVars, session, lock, threads, SESSIONS, ROOMS>>

\* the guest tells the other peer that it has joined
WsJoined(w) ==
    /\ sockets[w].pc = "joined"
    /\ sockets' = [send_json(sockets, other(ROOMS[Code], w),
                             PeerStatus("joined"))
                     EXCEPT ![w].pc = "open"]
    /\ UNCHANGED <<gameVars, aiVars, session, lock, threads, SESSIONS, ROOMS>>

\* a message of the client arrives and is passed on to the other peer of
\* the room now under the code
WsMessage(w) ==
    /\ sockets[w].pc = "open"
    /\ Sent(sockets) < MaxMessages
    /\ LET target == IF Code \in DOMAIN ROOMS THEN other(ROOMS[Code], w)
                     ELSE None
       IN  sockets' = [send_json(sockets, target, Signal(w))
                         EXCEPT ![w].sent = @ + 1]
    /\ UNCHANGED <<gameVars, aiVars, session, lock, threads, SESSIONS, ROOMS>>

\* the client goes away: receive_json raises WebSocketDisconnect and the
\* `finally` gives up the place and tells the other peer
WsDisconnect(w) ==
    /\ sockets[w].pc = "open"
    /\ LET target == IF Code \in DOMAIN ROOMS THEN other(ROOMS[Code], w)
                     ELSE None
       IN  /\ ROOMS' = vacated(ROOMS, Code, w)
           /\ sockets' = [send_json(sockets, target, PeerStatus("left"))
                            EXCEPT ![w] = Closed(sockets[w].connects,
                                                 sockets[w].sent, <<>>)]
    /\ UNCHANGED <<gameVars, aiVars, session, lock, threads, SESSIONS>>

NextRoom ==
    \/ CreateRoom
    \/ \E w \in Sockets :
          \/ WsAccept(w)
          \/ WsEnter(w)
          \/ WsFull(w)
          \/ WsRole(w)
          \/ WsJoined(w)
          \/ WsMessage(w)
          \/ WsDisconnect(w)

SpecRoom == InitRoom /\ [][NextRoom]_vars

\* the websocket has a place in the room: its handler has chosen its role
\* and has not yet run its `finally`
Seated(w) == sockets[w].pc \in {"role", "joined", "open"}

\* the room under the code, a room with no peer if there is none
TheRoom == IF Code \in DOMAIN ROOMS THEN ROOMS[Code] ELSE Room

\* the signals among the messages q
Signals(q) == {k \in 1 .. Len(q) : q[k].type = "signal"}

\* C39: under every interleaving of connections and disconnections on one
\* room code, at most one peer is host and at most one is guest; a connection
\* becomes host if there is none, else guest if there is none, else it gets
\* the error "Room is full" and is closed with the room left as it was; and
\* a peer's message is passed to the other peer only, never to its sender.
C39_RoomRoles ==
    /\ [](/\ \A w \in Sockets :
               Seated(w) =>
                  \/ sockets[w].role = "host" /\ TheRoom.host = w
                  \/ sockets[w].role = "guest" /\ TheRoom.guest = w
          /\ \A w, v \in Sockets :
               Seated(w) /\ Seated(v) /\ sockets[w].role = sockets[v].role
                  => w = v
          /\ TheRoom.host # None => Seated(TheRoom.host)
          /\ TheRoom.guest # None => Seated(TheRoom.guest)
          /\ \A w \in Sockets :
               \A k \in Signals(sockets[w].inbox) :
                  sockets[w].inbox[k].from # w)
    /\ [][\A w \in Sockets :
            /\ sockets[w].pc = "accepted" /\ sockets'[w].pc # "accepted"
                 => IF TheRoom.host = None
                    THEN /\ sockets'[w].role = "host"
                         /\ ROOMS'[Code] = [TheRoom EXCEPT !.host = w]
                    ELSE IF TheRoom.guest = None
                    THEN /\ sockets'[w].role = "guest"
                         /\ ROOMS'[Code] = [TheRoom EXCEPT !.guest = w]
                    ELSE /\ sockets'[w].pc = "full"
                         /\ ROOMS' = ROOMS
            /\ sockets[w].pc = "full" /\ sockets'[w].pc # "full"
                 => /\ sockets'[w].pc = "closed"
                    /\ sockets'[w].inbox = Append(sockets[w].inbox, RoomFull)
                    /\ ROOMS' = ROOMS
            /\ sockets'[w].inbox \notin {sockets[w].inbox, <<>>}
                 => LET got == sockets'[w].inbox[Len(sockets'[w].inbox)]
                    IN  /\ sockets'[w].inbox = Append(sockets[w].inbox, got)
                        /\ got.type = "signal"
                              => /\ got.from \in Sockets \ {w}
                                 /\ Seated(got.from) /\ Seated(w)
                                 /\ {got.from, w}
                                       = {TheRoom.host, TheRoom.guest}]_vars

\* the room has its host and its guest, a third connection has been turned
\* away with the error, and the guest has got a message of the host
C39_Witness ==
    /\ TheRoom.host # None
    /\ TheRoom.guest # None
    /\ \E w \in Sockets :
          /\ sockets[w].pc = "closed"
          /\ sockets[w].inbox = <<RoomFull>>
    /\ Signal(TheRoom.host) \in Range(sockets[TheRoom.guest].inbox)

====
